---- MODULE Spec2Model ----
(***************************************************************************)
(* Model of the recently-watched collection pipeline:                      *)
(*   main.py                       entry point, related-flavor reconcile    *)
(*   helpers/tautulli_change_of_taste_collection.py  contrast reconcile     *)
(*   helpers/chatgpt_utils.py      suggestion parsing                       *)
(*   helpers/plex_utils.py         library lookup                           *)
(*   helpers/radarr_utils.py       acquisition requester                    *)
(* Strings are sequences of one-character strings so that strip(), lower() *)
(* and the numbering regex are computed, not assumed.                      *)
(***************************************************************************)
EXTENDS Integers, Sequences, FiniteSets, TLC

(***************************************************************************)
(* Bounds of the model.                                                    *)
(***************************************************************************)
\* longest generative-API answer, in lines
MaxLines == 2

\* Python's None and a present optional value: the empty and the one-element
\* tuple, so that optionals of any type compare
None == <<>>
Some(x) == <<x>>

\* the element of s at the lowest index of hits, as an optional
FirstAt(s, hits) ==
    IF hits = {} THEN None
    ELSE Some(s[CHOOSE i \in hits : \A j \in hits : i <= j])

(***************************************************************************)
(* Titles and generative-API answer lines used as inputs.                  *)
(***************************************************************************)
Pap == <<"P", "a", "p">>
PAP == <<"P", "A", "P">>
Papa == <<"P", "a", "p", "a">>
Aki == <<"A", "k", "i">>
Zip == <<"Z", "i", "p">>
zip == <<"z", "i", "p">>
In == <<"I", "n">>

\* "2) PAP ", "Aki", "1. Aki", "* Zip", "In"
RawLines == {<<"2", ")", " ">> \o PAP \o <<" ">>, Aki,
             <<"1", ".", " ">> \o Aki, <<"*", " ">> \o Zip, In}

RECURSIVE SeqsUpTo(_, _)
SeqsUpTo(S, n) ==
    IF n = 0 THEN {<<>>}
    ELSE LET shorter == SeqsUpTo(S, n - 1)
         IN  shorter \cup {Append(q, x) : q \in shorter, x \in S}

\* resp.choices[0].message.content.splitlines()
RawAnswers == SeqsUpTo(RawLines, MaxLines)

(***************************************************************************)
(* Python string primitives.                                               *)
(***************************************************************************)
Upper == <<"A", "I", "K", "M", "N", "P", "Z">>
LowerOf == <<"a", "i", "k", "m", "n", "p", "z">>
Whitespace == {" "}
\* stands for the bullet character U+2022
Bullet == "*"
Digits == {"0", "1", "2", "3", "4", "5", "6", "7", "8", "9"}

\* str.lower() on one character
LowerChar(c) ==
    IF \E i \in 1..Len(Upper) : Upper[i] = c
    THEN LowerOf[CHOOSE i \in 1..Len(Upper) : Upper[i] = c]
    ELSE c

\* str.lower()
Lower(s) == [i \in 1..Len(s) |-> LowerChar(s[i])]

RECURSIVE LStrip(_, _)
LStrip(s, chars) ==
    IF s # <<>> /\ Head(s) \in chars THEN LStrip(Tail(s), chars) ELSE s

RECURSIVE RStrip(_, _)
RStrip(s, chars) ==
    IF s # <<>> /\ s[Len(s)] \in chars
    THEN RStrip(SubSeq(s, 1, Len(s) - 1), chars)
    ELSE s

\* str.strip(chars); str.strip() is StripChars(s, Whitespace)
StripChars(s, chars) == RStrip(LStrip(s, chars), chars)
Strip(s) == StripChars(s, Whitespace)

\* re.sub(r"^[\d]+\s*[\.\)\-]\s*", "", line)
StripNumbering(line) ==
    LET afterDigits == LStrip(line, Digits)
        afterSpace == LStrip(afterDigits, Whitespace)
    IN  IF /\ Len(afterDigits) < Len(line)
           /\ afterSpace # <<>>
           /\ Head(afterSpace) \in {".", ")", "-"}
        THEN LStrip(Tail(afterSpace), Whitespace)
        ELSE line

\* chatgpt_utils.normalize_title
normalize_title(line) ==
    Strip(Strip(StripChars(StripNumbering(Strip(line)), {"-", Bullet, " "})))

\* the parsing loop shared by get_related_movies and get_contrast_movies
RECURSIVE ParseLines(_, _, _)
ParseLines(lines, movies, seen) ==
    IF lines = <<>> THEN movies
    ELSE LET t == normalize_title(Head(lines))
             tl == Lower(t)
         IN  IF t = <<>> THEN ParseLines(Tail(lines), movies, seen)
             ELSE IF tl \in seen THEN ParseLines(Tail(lines), movies, seen)
             ELSE IF Len(t) < 3 THEN ParseLines(Tail(lines), movies, seen)
             ELSE ParseLines(Tail(lines), Append(movies, t), seen \cup {tl})

\* variant: the list is not cut
Take_all(s, n) == s

\* movies[:max_results], for max_results >= 0
Take(s, n) == SubSeq(s, 1, IF Len(s) < n THEN Len(s) ELSE n)

\* get_related_movies / get_contrast_movies after the API answered with raw
SuggestFrom(raw, max_results) == Take(ParseLines(raw, <<>>, {}), max_results)

\* lines 38-53
get_related_movies(raw, max_results) == SuggestFrom(raw, max_results)

\* lines 86-100
get_contrast_movies(raw, max_results) == SuggestFrom(raw, max_results)


(***************************************************************************)
(* Library lookup (plex_utils).                                            *)
(***************************************************************************)
\* the movie section of the media server, in the order search() lists it
Library == <<
    [title |-> Papa, ratingKey |-> 3, year |-> Some(1984)],
    [title |-> Pap, ratingKey |-> 12, year |-> Some(1999)],
    [title |-> Aki, ratingKey |-> 7, year |-> None],
    [title |-> PAP, ratingKey |-> 45, year |-> Some(2005)] >>

DigitSeq == <<"0", "1", "2", "3", "4", "5", "6", "7", "8", "9">>

\* str(n) for a non-negative integer
RECURSIVE ToStr(_)
ToStr(n) ==
    IF n < 10 THEN <<DigitSeq[n + 1]>>
    ELSE Append(ToStr(n \div 10), DigitSeq[(n % 10) + 1])

Contains(hay, needle) ==
    \E i \in 0..(Len(hay) - Len(needle)) :
        SubSeq(hay, i + 1, i + Len(needle)) = needle


\* library().search(title): the server's title filter (substring, any case)
PlexSearch(title) ==
    LET Hit(m) == Contains(Lower(m.title), Lower(title))
    IN  SelectSeq(Library, Hit)

\* plex_utils.find_plex_movie_by_title, given that search() answered
find_plex_movie_by_title(title) ==
    LET results == PlexSearch(title)
    IN  FirstAt(results, {i \in 1..Len(results) :
                             Lower(results[i].title) = Lower(title)})

\* the record appended to collection_movies for a found movie
SnapshotRecord(plex_movie) ==
    [title |-> plex_movie.title,
     rating_key |-> ToStr(plex_movie.ratingKey),
     year |-> plex_movie.year]

(***************************************************************************)
(* Acquisition requester (radarr_utils).  Each operator yields the set of  *)
(* lookups the external calls allow: the catalog and tags afterwards, the *)
(* write requests issued (reqs) and whether an exception left the function.*)
(***************************************************************************)
TmdbIds == {1, 2}

Outcome(cat, tg, rq, ex) ==
    [catalog |-> cat, tags |-> tg, reqs |-> rq, raised |-> ex,
     tmdb_id |-> None]

\* the outcome of a call in which the title resolved to tmdb_id
Resolved(o, tmdb_id) == [o EXCEPT !.tmdb_id = tmdb_id]

\* variant: the titles are compared as they are
radarr_find_movie_exact(cat, title) ==
    FirstAt(cat, {i \in 1..Len(cat) : cat[i].title = title})

\* radarr_find_movie, given that the catalog listing answered
radarr_find_movie(cat, title) ==
    FirstAt(cat, {i \in 1..Len(cat) : Lower(cat[i].title) = Lower(title)})

\* variant: the lookup by id finds nothing
radarr_find_movie_by_tmdb_id_none(cat, tmdb_id) == None

\* radarr_find_movie_by_tmdb_id, given that the catalog listing answered
radarr_find_movie_by_tmdb_id(cat, tmdb_id) ==
    FirstAt(cat, {i \in 1..Len(cat) : cat[i].tmdbId = tmdb_id})

\* the catalog after PUT /movie/{id} with monitored set
PutMonitored(cat, movie_id, monitored) ==
    [i \in 1..Len(cat) |->
        IF cat[i].id = movie_id
        THEN [cat[i] EXCEPT !.monitored = monitored]
        ELSE cat[i]]

\* radarr_set_monitored(movie, True)
radarr_set_monitored(cat, tg, rq, movie) ==
    IF movie.monitored = TRUE
    THEN {Outcome(cat, tg, rq, FALSE)}
    ELSE {Outcome(PutMonitored(cat, movie.id, TRUE), tg,
                  Append(rq, "PUT movie"), FALSE),
          Outcome(cat, tg, Append(rq, "PUT movie"), TRUE)}

\* get_or_create_tag for one name: GET /tag, then POST /tag when absent
get_or_create_tag(tg, rq, tag_name) ==
    {[tags |-> tg, reqs |-> rq, raised |-> TRUE]} \cup
    (IF \E label \in tg : Lower(label) = Lower(tag_name)
     THEN {[tags |-> tg, reqs |-> rq, raised |-> FALSE]}
     ELSE {[tags |-> tg \cup {tag_name}, reqs |-> Append(rq, "POST tag"),
            raised |-> FALSE],
           [tags |-> tg, reqs |-> Append(rq, "POST tag"), raised |-> TRUE]})

\* tag_ids = [get_or_create_tag(t) for t in tag_names]
RECURSIVE ResolveTags(_, _, _)
ResolveTags(tg, rq, tag_names) ==
    IF tag_names = <<>> THEN {[tags |-> tg, reqs |-> rq, raised |-> FALSE]}
    ELSE UNION {IF o.raised THEN {o}
                ELSE ResolveTags(o.tags, o.reqs, Tail(tag_names)) :
                o \in get_or_create_tag(tg, rq, Head(tag_names))}

DigitValue(c) == (CHOOSE i \in 1..10 : DigitSeq[i] = c) - 1

\* int(s) for a string of decimal digits
RECURSIVE ParseInt(_)
ParseInt(s) ==
    IF s = <<>> THEN 0
    ELSE 10 * ParseInt(SubSeq(s, 1, Len(s) - 1)) + DigitValue(s[Len(s)])

ReleaseDate == <<"2", "0", "0", "1", "-", "0", "7", "-", "2", "0">>

\* what radarr_lookup_movie can answer for a title: no result, or a first
\* result carrying a tmdbId (possibly absent or 0)
LookupAnswers(title) ==
    {None} \cup
    {Some([title |-> title, tmdbId |-> id, year |-> Some(2001)]) :
        id \in {None, Some(0)} \cup {Some(n) : n \in TmdbIds}}

\* what search_tmdb can answer: no result, or a first result
TmdbAnswers(title) ==
    {None} \cup
    {Some([title |-> title, id |-> n, release_date |-> d]) :
        n \in TmdbIds, d \in {None, Some(ReleaseDate)}}

\* the resolution step of radarr_add_and_search: lines 88-108
Resolutions(title) ==
    LET fromLookup ==
            {[raised |-> FALSE, resolved |-> TRUE,
              resolved_title |-> a[1].title, tmdb_id |-> a[1].tmdbId,
              year |-> a[1].year] : a \in LookupAnswers(title) \ {None}}
        \* lookup raised (caught) or answered nothing: fall back to TMDB
        fromTmdb ==
            {IF a = None
             THEN [raised |-> FALSE, resolved |-> FALSE,
                   resolved_title |-> title, tmdb_id |-> None, year |-> None]
             ELSE [raised |-> FALSE, resolved |-> TRUE,
                   resolved_title |-> a[1].title, tmdb_id |-> Some(a[1].id),
                   year |-> IF a[1].release_date # None
                            THEN Some(ParseInt(Take(a[1].release_date[1], 4)))
                            ELSE None] : a \in TmdbAnswers(title)}
        tmdbRaised ==
            {[raised |-> TRUE, resolved |-> FALSE,
              resolved_title |-> title, tmdb_id |-> None, year |-> None]}
    IN  fromLookup \cup fromTmdb \cup tmdbRaised

NextId(cat) ==
    1 + (IF cat = <<>> THEN 0
         ELSE CHOOSE m \in {cat[i].id : i \in 1..Len(cat)} :
                  \A i \in 1..Len(cat) : cat[i].id <= m)

\* Python truthiness of tmdb_id
Truthy(tmdb_id) == tmdb_id # None /\ tmdb_id # Some(0)

\* radarr_add_and_search(title, tag_names)
radarr_add_and_search(cat, tg, title, tag_names) ==
    UNION {
        IF t.raised THEN {Outcome(cat, t.tags, t.reqs, TRUE)}
        ELSE UNION {
            IF r.raised THEN {Outcome(cat, t.tags, t.reqs, TRUE)}
            ELSE IF ~r.resolved \/ ~Truthy(r.tmdb_id)
            THEN {Outcome(cat, t.tags, t.reqs, FALSE)}
            ELSE LET existing_by_id ==
                         radarr_find_movie_by_tmdb_id(cat, r.tmdb_id[1])
                     guarded ==
                         IF existing_by_id # None
                         THEN radarr_set_monitored(cat, t.tags, t.reqs,
                                                   existing_by_id[1])
                         ELSE {Outcome(Append(cat,
                                   [id |-> NextId(cat),
                                    title |-> r.resolved_title,
                                    tmdbId |-> r.tmdb_id[1],
                                    monitored |-> TRUE]),
                                   t.tags, Append(t.reqs, "POST movie"),
                                   FALSE),
                               Outcome(cat, t.tags,
                                       Append(t.reqs, "POST movie"), TRUE)}
                 IN  \* the catalog listing of the duplicate guard may fail
                     {Resolved(o, r.tmdb_id) :
                         o \in {Outcome(cat, t.tags, t.reqs, TRUE)}
                                   \cup guarded}
            : r \in Resolutions(title)}
        : t \in ResolveTags(tg, <<>>, tag_names)}

\* one iteration of the loop of radarr_process_missing_titles; listing is
\* whether the catalog listing of radarr_find_movie answered.  propagated
\* tells whether an exception leaves radarr_process_missing_titles.
ProcessTitle(cat, tg, title, tag_names, listing) ==
    IF ~listing
    THEN {[catalog |-> cat, tags |-> tg, reqs |-> <<>>, path |-> "listing",
           caught |-> FALSE, propagated |-> TRUE, tmdb_id |-> None]}
    ELSE LET existing == radarr_find_movie(cat, title)
         IN  IF existing # None
             THEN {[catalog |-> o.catalog, tags |-> o.tags, reqs |-> o.reqs,
                    path |-> "existing", caught |-> o.raised,
                    propagated |-> FALSE, tmdb_id |-> None] :
                    o \in radarr_set_monitored(cat, tg, <<>>, existing[1])}
             ELSE {[catalog |-> o.catalog, tags |-> o.tags, reqs |-> o.reqs,
                    path |-> "add", caught |-> o.raised,
                    propagated |-> FALSE, tmdb_id |-> o.tmdb_id] :
                    o \in radarr_add_and_search(cat, tg, title, tag_names)}

(***************************************************************************)
(* Program constants.                                                      *)
(***************************************************************************)
Flavors == {"related", "contrast"}

\* RADARR_TAGS of main.py and of tautulli_change_of_taste_collection.py
TagMovies == <<"m", "o", "v", "i", "e", "s">>
TagRecent == <<"d", "u", "e", "-", "t", "o", "-", "p", "r", "e", "v", "i", "o", "u", "s", "l", "y", "-", "w", "a", "t", "c", "h", "e", "d">>
TagChange == <<"c", "h", "a", "n", "g", "e", "-", "o", "f", "-", "t", "a", "s", "t", "e">>
RADARR_TAGS(f) ==
    IF f = "related" THEN <<TagMovies, TagRecent>> ELSE <<TagMovies, TagChange>>

\* variant: both flavors share one file name
JSON_FILE_shared(f) == "recently_watched_collection.json"

\* JSON_FILE of main.py and of tautulli_change_of_taste_collection.py
JSON_FILE(f) ==
    IF f = "related" THEN "recently_watched_collection.json"
    ELSE "change_of_taste_collection.json"
FileNames == {JSON_FILE(f) : f \in Flavors}

\* COLLECTIONS: the collection names, in the order they are processed
COLLECTIONS == <<"Based on your recently watched movie", "Change of Taste">>
CollectionNames == {COLLECTIONS[i] : i \in 1..Len(COLLECTIONS)}

\* the json_file of the i-th entry of COLLECTIONS
json_file(i) ==
    IF i = 1 THEN "recently_watched_collection.json"
    ELSE "change_of_taste_collection.json"

\* max_results passed by both reconcile functions
MaxResults == 15

(***************************************************************************)
(* State.                                                                  *)
(***************************************************************************)
VARIABLES
    mpc,                \* position of main()
    run_refresher,      \* config scripts_run.run_collection_refresher
    exit_code,          \* main's exit_code local
    returned,           \* what main() returned, None while running
    stats,              \* stats_recent / stats_change, per flavor
    refresher_result,   \* how the chained refresher ended
    rpc,                \* position of the running reconcile function
    recommendations,    \* its candidates
    lookups,            \* the library lookups made so far: title and result
    collection_movies,  \* present
    missing_in_plex,    \* missing
    missing_seen,
    saved_to_json,
    sent_to_radarr,
    raisedAt,           \* the step whose Exception reached reconcile's outer try
    attempted,          \* titles radarr_process_missing_titles has handled
    last_req,           \* what it did for the latest of them
    files,              \* the two snapshot files under data/
    catalog,            \* the Radarr movie catalog
    tags,               \* the Radarr tag labels
    file_before,        \* content of the flavor's file when reconcile began
    lastReturned,       \* per flavor: present of the last run that returned
    lastSaved,          \* per flavor: present of the last run that saved
    writeFailed,        \* per flavor: a snapshot write failed since then
    collections,        \* the library's collections: name to members
    fpc,                \* position of refresher.main()
    dry_run,            \* args.dry_run
    runs,               \* refresher runs started so far
    ci,                 \* index into COLLECTIONS of the loop of line 421
    shuffled_movies,    \* movies of refresher.main() after random.shuffle
    existing,           \* collection and existing_items of lines 139-150
    resolved,           \* per record: the lookups made and their result
    ops,                \* calls of the remove and add steps so far
    apply_stats,        \* what apply_collection_to_plex returned
    total_stats,
    refresher_exit,     \* what refresher.main() returned
    processed,          \* per collection handled in this run: its outcome
    start_collections,  \* the collections when this run started
    raw_lines,          \* a generative-API answer, split into lines
    max_wanted,         \* the max_results argument
    variant,            \* which of the two suggestion functions is called
    suggested,          \* what it returned, None before the call
    racing,             \* the flavor two concurrent runs reconcile
    writer,             \* each of the two runs at its step 3
    disk                \* what the flavor's snapshot file holds, cell by cell

mainVars == <<mpc, run_refresher, exit_code, returned, stats,
              refresher_result>>
runVars == <<rpc, recommendations, lookups, collection_movies,
             missing_in_plex, missing_seen, saved_to_json, sent_to_radarr,
             raisedAt, attempted, last_req, file_before>>
worldVars == <<files, catalog, tags>>
histVars == <<lastReturned, lastSaved, writeFailed>>
refLocals == <<fpc, dry_run, runs, ci, shuffled_movies, existing, resolved,
               ops,
               apply_stats, total_stats, refresher_exit, processed,
               start_collections>>
suggestVars == <<raw_lines, max_wanted, variant, suggested>>
raceVars == <<racing, writer, disk>>
refVars == <<collections, refLocals, suggestVars, raceVars>>
vars == <<mainVars, runVars, worldVars, histVars, refVars>>

AbsentFile == [state |-> "absent", recs |-> <<>>]
\* json.dump(movies, f) ran to completion
WholeFile(movies) == [state |-> "valid", recs |-> movies]
\* the file was opened for writing and the dump stopped after k records
CutFile(movies, k) == [state |-> "partial", recs |-> SubSeq(movies, 1, k)]

\* a snapshot left by an earlier invocation
PriorSnapshot == <<SnapshotRecord(Library[3]), SnapshotRecord(Library[1])>>

\* The world an invocation starts in, as earlier invocations and the Radarr
\* user may have left it: no snapshot yet and a catalog holding "zip"
\* unmonitored, or both snapshots written by an earlier run (which returned
\* PriorSnapshot as present), both collections filled from them by the
\* refresher, and a catalog holding "Papa" monitored.  No two items of a
\* catalog share a tmdbId.
InitialWorlds ==
    {[files |-> [n \in FileNames |-> AbsentFile],
      collections |-> [n \in CollectionNames |-> None],
      last |-> None,
      catalog |-> <<[id |-> 3, title |-> zip, tmdbId |-> 1,
                     monitored |-> FALSE]>>,
      tags |-> {}],
     [files |-> [n \in FileNames |-> WholeFile(PriorSnapshot)],
      collections |-> [n \in CollectionNames |-> Some(<<7, 3>>)],
      last |-> Some(PriorSnapshot),
      catalog |-> <<[id |-> 1, title |-> Papa, tmdbId |-> 1,
                     monitored |-> TRUE]>>,
      tags |-> {<<"M", "o", "v", "i", "e", "s">>}]}

\* the locals of a reconcile function before it starts
RunReset ==
    /\ rpc' = "idle"
    /\ recommendations' = <<>>
    /\ lookups' = <<>>
    /\ collection_movies' = <<>>
    /\ missing_in_plex' = <<>>
    /\ missing_seen' = {}
    /\ saved_to_json' = FALSE
    /\ sent_to_radarr' = 0
    /\ raisedAt' = "none"
    /\ attempted' = <<>>
    /\ last_req' = None
    /\ file_before' = AbsentFile

\* collection and existing_items before lines 139-150 ran
NoCheck == [collection |-> FALSE, existing_items |-> <<>>, error |-> FALSE]

\* total_stats as set up at lines 414-419
ZeroStats ==
    [collections_processed |-> 0, total_added |-> 0, total_failed |-> 0,
     total_filtered |-> 0]

\* the locals of refresher.main() and of apply_collection_to_plex for one
\* collection, before the collection is handled
CollectionReset ==
    /\ shuffled_movies' = <<>>
    /\ existing' = NoCheck
    /\ resolved' = <<>>
    /\ ops' = <<>>
    /\ apply_stats' = None

\* no suggestion function is called on its own
\* one run at a time
NoRace ==
    /\ racing = "related"
    /\ writer = <<>>
    /\ disk = <<>>

NoSuggestCall ==
    /\ raw_lines = <<>>
    /\ max_wanted = 0
    /\ variant = "related"
    /\ suggested = None

Init ==
    /\ NoSuggestCall
    /\ NoRace
    /\ fpc = "idle"
    /\ dry_run = FALSE
    /\ runs = 0
    /\ ci = 0
    /\ shuffled_movies = <<>>
    /\ existing = NoCheck
    /\ resolved = <<>>
    /\ ops = <<>>
    /\ apply_stats = None
    /\ total_stats = ZeroStats
    /\ refresher_exit = None
    /\ processed = <<>>
    /\ mpc = "start"
    /\ run_refresher = FALSE
    /\ exit_code = 0
    /\ returned = None
    /\ stats = [f \in Flavors |-> None]
    /\ refresher_result = "not run"
    /\ rpc = "idle"
    /\ recommendations = <<>>
    /\ lookups = <<>>
    /\ collection_movies = <<>>
    /\ missing_in_plex = <<>>
    /\ missing_seen = {}
    /\ saved_to_json = FALSE
    /\ sent_to_radarr = 0
    /\ raisedAt = "none"
    /\ attempted = <<>>
    /\ last_req = None
    /\ file_before = AbsentFile
    /\ \E w \in InitialWorlds :
          /\ files = w.files
          /\ collections = w.collections
          /\ start_collections = w.collections
          /\ catalog = w.catalog
          /\ tags = w.tags
          /\ lastReturned = [f \in Flavors |-> w.last]
          /\ lastSaved = [f \in Flavors |-> w.last]
    /\ writeFailed = [f \in Flavors |-> FALSE]

(***************************************************************************)
(* main(): argument check, configuration, the two reconcile calls.         *)
(***************************************************************************)
\* main() returns: the process ends with this exit code
Exit(code) ==
    /\ mpc' = "done"
    /\ returned' = Some(code)

BeginReconcile(f) ==
    /\ rpc' = "suggest"
    /\ recommendations' = <<>>
    /\ lookups' = <<>>
    /\ collection_movies' = <<>>
    /\ missing_in_plex' = <<>>
    /\ missing_seen' = {}
    /\ saved_to_json' = FALSE
    /\ sent_to_radarr' = 0
    /\ raisedAt' = "none"
    /\ attempted' = <<>>
    /\ last_req' = None
    /\ file_before' = files[JSON_FILE(f)]

\* lines 136-140: no seed title on the command line
StartNoArgument ==
    /\ mpc = "start"
    /\ Exit(1)
    /\ UNCHANGED <<run_refresher, exit_code, stats, refresher_result>>
    /\ UNCHANGED <<runVars, worldVars, histVars>>
    /\ UNCHANGED refVars

\* line 151 raises; caught by the outer handler, lines 287-290
StartConfigFails ==
    /\ mpc = "start"
    /\ Exit(1)
    /\ UNCHANGED <<run_refresher, exit_code, stats, refresher_result>>
    /\ UNCHANGED <<runVars, worldVars, histVars>>
    /\ UNCHANGED refVars

\* lines 142-175: configuration loaded, the related reconcile is entered
StartOk ==
    /\ mpc = "start"
    /\ mpc' = "related"
    /\ BeginReconcile("related")
    /\ UNCHANGED <<run_refresher, exit_code, returned, stats,
                   refresher_result>>
    /\ UNCHANGED <<worldVars, histVars>>
    /\ UNCHANGED refVars

(***************************************************************************)
(* run_recently_watched_playlist / run_change_of_taste_collection.         *)
(***************************************************************************)
InReconcile == mpc \in Flavors

\* variant: the failure is swallowed and the run goes on without candidates
OnSuggestFailure_swallowed == "lookup"

\* where control goes when get_related_movies / get_contrast_movies raises:
\* the outer handler logs and re-raises
OnSuggestFailure == "raised"

\* Step 1, the Suggestion Source answers or fails
Suggest ==
    /\ InReconcile /\ rpc = "suggest"
    /\ \/ /\ rpc' = OnSuggestFailure
          /\ raisedAt' = "suggest"
          /\ UNCHANGED recommendations
       \/ /\ \E raw \in RawAnswers :
                recommendations' = SuggestFrom(raw, MaxResults)
          /\ rpc' = "lookup"
          /\ UNCHANGED raisedAt
    /\ UNCHANGED <<lookups, collection_movies, missing_in_plex, missing_seen,
                   saved_to_json, sent_to_radarr, attempted, last_req,
                   file_before>>
    /\ UNCHANGED <<mainVars, worldVars, histVars>>
    /\ UNCHANGED refVars

\* variant: a title the library does not hold is not noted
RouteMissing_dropped(missing, seen, title) ==
    [missing |-> missing, seen |-> seen]

\* the bookkeeping of the else branch (lines 67-71): a title not in the library
RouteMissing(missing, seen, title) ==
    LET key == Lower(Strip(title))
    IN  IF key # <<>> /\ key \notin seen
        THEN [missing |-> Append(missing, Strip(title)),
              seen |-> seen \cup {key}]
        ELSE [missing |-> missing, seen |-> seen]

\* variant: the except branch only logs
RouteLookupError_dropped(missing, seen, title) ==
    [missing |-> missing, seen |-> seen]

\* the bookkeeping of the except branch (lines 72-78): the lookup raised
RouteLookupError(missing, seen, title) ==
    LET key == Lower(Strip(title))
    IN  IF key # <<>> /\ key \notin seen
        THEN [missing |-> Append(missing, Strip(title)),
              seen |-> seen \cup {key}]
        ELSE [missing |-> missing, seen |-> seen]

\* where control goes after a lookup raised: the loop goes on
OnLookupError == "lookup"

Looked(title, result) == [title |-> title, result |-> result]

\* variant: a found movie is tagged into the flavor's collection at once
CollectionsAfterLookup_tagged(colls, f, plex_movie) ==
    LET name == IF f = "related" THEN COLLECTIONS[1] ELSE COLLECTIONS[2]
        old == IF colls[name] = None THEN <<>> ELSE colls[name][1]
    IN  [colls EXCEPT ![name] = Some(Append(old, plex_movie.ratingKey))]

\* the library collections after a movie was found: the loop body only
\* appends a record to collection_movies, of the functions of plex_utils
\* only find_plex_movie_by_title is imported
CollectionsAfterLookup(colls, f, plex_movie) == colls

\* Step 2, one iteration of the loop over recommendations
Lookup ==
    /\ InReconcile /\ rpc = "lookup"
    /\ Len(lookups) < Len(recommendations)
    /\ LET title == recommendations[Len(lookups) + 1]
           plex_movie == find_plex_movie_by_title(title)
       IN  \/ \* the search answered
              /\ IF plex_movie # None
                 THEN /\ collection_movies' =
                            Append(collection_movies,
                                   SnapshotRecord(plex_movie[1]))
                      /\ lookups' = Append(lookups, Looked(title, "found"))
                      /\ collections' =
                            CollectionsAfterLookup(collections, mpc,
                                                   plex_movie[1])
                      /\ UNCHANGED <<missing_in_plex, missing_seen>>
                 ELSE LET m == RouteMissing(missing_in_plex, missing_seen,
                                            title)
                      IN  /\ missing_in_plex' = m.missing
                          /\ missing_seen' = m.seen
                          /\ lookups' = Append(lookups,
                                                Looked(title, "absent"))
                          /\ UNCHANGED <<collection_movies, collections>>
              /\ UNCHANGED <<rpc, raisedAt>>
           \/ \* the search raised
              LET m == RouteLookupError(missing_in_plex, missing_seen, title)
              IN  /\ missing_in_plex' = m.missing
                  /\ missing_seen' = m.seen
                  /\ lookups' = Append(lookups, Looked(title, "error"))
                  /\ rpc' = OnLookupError
                  /\ UNCHANGED <<collection_movies, raisedAt, collections>>
    /\ UNCHANGED <<recommendations, saved_to_json, sent_to_radarr, attempted,
                   last_req,
                   file_before>>
    /\ UNCHANGED <<mainVars, worldVars, histVars>>
    /\ UNCHANGED <<refLocals, suggestVars, raceVars>>

\* lines 77-86 of tautulli_change_of_taste_collection.py
RECURSIVE Dedup(_, _, _)
Dedup(list, deduped, seen) ==
    IF list = <<>> THEN deduped
    ELSE LET t == Head(list)
             tl == Lower(t)
         IN  IF tl \in seen THEN Dedup(Tail(list), deduped, seen)
             ELSE Dedup(Tail(list), Append(deduped, t), seen \cup {tl})

\* missing_in_plex as it stands when the loop is over
FinalMissing(f, missing) ==
    IF f = "contrast" THEN Dedup(missing, <<>>, {}) ELSE missing

\* variant: the write is not guarded
ShouldSave_always(movies) == TRUE

\* the test "if collection_movies:" guarding the write
ShouldSave(movies) == movies # <<>>

\* variant: the file is opened for appending
WrittenFile_append(old, movies) ==
    [state |-> "valid", recs |-> old.recs \o movies]

\* save_collection_to_json succeeded: the file after open("w") and json.dump
WrittenFile(old, movies) == WholeFile(movies)

\* variant: the write failure is logged only
OnWriteFailure_swallowed == "radarr"

\* where control goes when save_collection_to_json raises: re-raised
OnWriteFailure == "raised"

\* Step 3: the loop is over; the snapshot is written when present is
\* non-empty.  open() may fail (file untouched) and json.dump may fail after
\* the file was truncated (k records reached the disk).
Save ==
    /\ InReconcile /\ rpc = "lookup"
    /\ Len(lookups) = Len(recommendations)
    /\ missing_in_plex' = FinalMissing(mpc, missing_in_plex)
    /\ IF ShouldSave(collection_movies)
       THEN \/ /\ files' = [files EXCEPT ![JSON_FILE(mpc)] =
                                WrittenFile(@, collection_movies)]
               /\ saved_to_json' = TRUE
               /\ rpc' = "radarr"
               /\ lastSaved' = [lastSaved EXCEPT ![mpc] =
                                    Some(collection_movies)]
               /\ writeFailed' = [writeFailed EXCEPT ![mpc] = FALSE]
               /\ UNCHANGED raisedAt
            \/ /\ \/ UNCHANGED files
                  \/ \E k \in 0..(Len(collection_movies) - 1) :
                        files' = [files EXCEPT ![JSON_FILE(mpc)] =
                                      CutFile(collection_movies, k)]
               /\ rpc' = OnWriteFailure
               /\ raisedAt' = "save"
               /\ writeFailed' = [writeFailed EXCEPT ![mpc] = TRUE]
               /\ UNCHANGED <<saved_to_json, lastSaved>>
       ELSE /\ rpc' = "radarr"
            /\ UNCHANGED <<files, saved_to_json, raisedAt, lastSaved,
                           writeFailed>>
    /\ UNCHANGED <<recommendations, lookups, collection_movies, missing_seen,
                   sent_to_radarr, attempted, last_req, file_before>>
    /\ UNCHANGED <<mainVars, catalog, tags, lastReturned>>
    /\ UNCHANGED refVars

\* Step 4 with nothing missing: lines 109-110
SkipAcquire ==
    /\ InReconcile /\ rpc = "radarr"
    /\ missing_in_plex = <<>>
    /\ rpc' = "return"
    /\ UNCHANGED <<recommendations, lookups, collection_movies,
                   missing_in_plex, missing_seen, saved_to_json,
                   sent_to_radarr, raisedAt, attempted, last_req, file_before>>
    /\ UNCHANGED <<mainVars, worldVars, histVars>>
    /\ UNCHANGED refVars

\* variant: the handler re-raises
OnAcquireFailure_reraised == "raised"

\* where control goes when radarr_process_missing_titles raises: lines
\* 105-108 log and go on to the return statement
OnAcquireFailure == "return"

\* variant: a swallowed failure of the last request gives 0
SentAfterCall_unless_caught(missing, caught) ==
    IF caught THEN 0 ELSE Len(missing)

\* line 102, after radarr_process_missing_titles returned:
\* sent_to_radarr = len(missing_in_plex), whatever was caught inside
SentAfterCall(missing, caught) == Len(missing)

\* Step 4: radarr_process_missing_titles handles the next missing title
AcquireTitle ==
    /\ InReconcile /\ rpc = "radarr"
    /\ Len(attempted) < Len(missing_in_plex)
    /\ LET title == missing_in_plex[Len(attempted) + 1]
       IN  \E listing \in BOOLEAN :
           \E o \in ProcessTitle(catalog, tags, title, RADARR_TAGS(mpc),
                                 listing) :
              /\ catalog' = o.catalog
              /\ tags' = o.tags
              /\ attempted' = Append(attempted, title)
              /\ last_req' = Some([title |-> title, reqs |-> o.reqs,
                                   path |-> o.path, caught |-> o.caught,
                                   propagated |-> o.propagated,
                                   tmdb_id |-> o.tmdb_id])
              /\ IF o.propagated
                 THEN /\ rpc' = OnAcquireFailure
                      /\ UNCHANGED <<sent_to_radarr, raisedAt>>
                 ELSE IF Len(attempted) + 1 = Len(missing_in_plex)
                 THEN /\ rpc' = "return"
                      /\ sent_to_radarr' =
                            SentAfterCall(missing_in_plex, o.caught)
                      /\ UNCHANGED raisedAt
                 ELSE UNCHANGED <<rpc, sent_to_radarr, raisedAt>>
    /\ UNCHANGED <<recommendations, lookups, collection_movies,
                   missing_in_plex, missing_seen, saved_to_json, file_before>>
    /\ UNCHANGED <<mainVars, files, histVars>>
    /\ UNCHANGED refVars

\* the dict returned at lines 112-117
ReturnedStats ==
    [found_in_plex |-> Len(collection_movies),
     missing_in_plex |-> Len(missing_in_plex),
     saved_to_json |-> saved_to_json,
     sent_to_radarr |-> sent_to_radarr]

(***************************************************************************)
(* main(), continued: what follows each reconcile call.                    *)
(***************************************************************************)
\* the statement main() executes after the call for flavor f
NextAfter(f) == IF f = "related" THEN "contrast" ELSE "summary"

\* variant: the first failure ends the processing
OnReconcileFailure_abort(f) == "summary"

\* where main() goes when the reconcile of flavor f raised an Exception:
\* lines 178-181 and 193-196 log, set exit_code and fall through
OnReconcileFailure(f) == NextAfter(f)

Advance(target) ==
    IF target = "contrast"
    THEN mpc' = "contrast" /\ BeginReconcile("contrast")
    ELSE mpc' = target /\ RunReset

\* the reconcile call returned its stats
ReconcileReturns ==
    /\ InReconcile /\ rpc = "return"
    /\ stats' = [stats EXCEPT ![mpc] = Some(ReturnedStats)]
    /\ lastReturned' = [lastReturned EXCEPT ![mpc] = Some(collection_movies)]
    /\ Advance(NextAfter(mpc))
    /\ UNCHANGED <<run_refresher, exit_code, returned,
                   refresher_result>>
    /\ UNCHANGED <<worldVars, lastSaved, writeFailed>>
    /\ UNCHANGED refVars

\* variant: a flavor's failure leaves the exit code as it was
ExitCodeAfterFailure_kept(code) == code

\* lines 181 and 196: exit_code = 1
ExitCodeAfterFailure(code) == 1

\* the reconcile call raised an Exception
ReconcileRaises ==
    /\ InReconcile /\ rpc = "raised"
    /\ exit_code' = ExitCodeAfterFailure(exit_code)
    /\ Advance(OnReconcileFailure(mpc))
    /\ UNCHANGED <<run_refresher, returned, stats, refresher_result>>
    /\ UNCHANGED <<worldVars, histVars>>
    /\ UNCHANGED refVars

\* variant: the refresher's outcome is passed on
ExitAfterRefresher_passed_on(code, result) ==
    IF result = "interrupt" THEN 130
    ELSE IF result \in {"exit 1", "exception"} THEN 1
    ELSE code

\* line 281: `return exit_code`, whatever lines 253-268 logged about the
\* refresher
ExitAfterRefresher(code, result) == code

\* lines 198-281: summary, the optional chained refresher, the exit code.
\* The flag read from the configuration at line 156 is drawn here, where it
\* is first used.  The refresher ends with an exit code, an exception or an
\* interrupt, all handled at lines 253-268.
Finish ==
    /\ mpc = "summary"
    /\ \E flag \in BOOLEAN :
          /\ run_refresher' = flag
          /\ IF flag
             THEN \E res \in {"exit 0", "exit 1", "exception", "interrupt"} :
                     refresher_result' = res
             ELSE refresher_result' = "skipped"
    /\ Exit(ExitAfterRefresher(exit_code, refresher_result'))
    /\ UNCHANGED <<exit_code, stats>>
    /\ UNCHANGED <<runVars, worldVars, histVars>>
    /\ UNCHANGED refVars

\* KeyboardInterrupt outside the refresher: lines 283-286
Interrupt ==
    /\ mpc \in {"start", "related", "contrast", "summary"}
    /\ Exit(130)
    /\ RunReset
    /\ UNCHANGED <<run_refresher, exit_code, stats, refresher_result>>
    /\ UNCHANGED <<worldVars, histVars>>
    /\ UNCHANGED refVars

\* KeyboardInterrupt while json.dump is writing the snapshot
InterruptedWrite ==
    /\ InReconcile /\ rpc = "lookup"
    /\ Len(lookups) = Len(recommendations)
    /\ ShouldSave(collection_movies)
    /\ \E k \in 0..(Len(collection_movies) - 1) :
          files' = [files EXCEPT ![JSON_FILE(mpc)] =
                        CutFile(collection_movies, k)]
    /\ writeFailed' = [writeFailed EXCEPT ![mpc] = TRUE]
    /\ Exit(130)
    /\ RunReset
    /\ UNCHANGED <<run_refresher, exit_code, stats, refresher_result>>
    /\ UNCHANGED <<catalog, tags, lastReturned, lastSaved>>
    /\ UNCHANGED refVars

Next ==
    \/ StartNoArgument
    \/ StartConfigFails
    \/ StartOk
    \/ Suggest
    \/ Lookup
    \/ Save
    \/ SkipAcquire
    \/ AcquireTitle
    \/ ReconcileReturns
    \/ ReconcileRaises
    \/ Finish
    \/ Interrupt
    \/ InterruptedWrite

Spec == Init /\ [][Next]_vars

(***************************************************************************)
(* Collection refresher (refresher.py): data and the calls it makes.       *)
(***************************************************************************)
\* most records a snapshot file holds
MaxRecords == 2

MovieType == <<"m", "o", "v", "i", "e">>
ShowType == <<"s", "h", "o", "w">>

WithType(m, t) ==
    [title |-> m.title, ratingKey |-> m.ratingKey, year |-> m.year,
     type |-> t]

\* what section.fetchItem can reach: the movies of the section and, since
\* rating keys are server-wide, an item of another kind
Metadata ==
    [i \in 1..Len(Library) |-> WithType(Library[i], MovieType)] \o
    <<[title |-> Aki, ratingKey |-> 9, year |-> None, type |-> ShowType]>>

\* a list of plain titles, the older snapshot shape
TitlesFile(titles) == [state |-> "titles", recs |-> titles]

\* variant: an unreadable file is taken as far as it could be read
load_collection_json_lenient(file) ==
    IF file.state = "absent" THEN None ELSE Some(file.recs)

\* load_collection_json: the list of records, or None (file missing, not
\* valid JSON, unreadable).  A list of strings becomes a list of records
\* without rating_key.
load_collection_json(file) ==
    IF file.state = "valid" THEN Some(file.recs)
    ELSE IF file.state = "titles"
    THEN Some([i \in 1..Len(file.recs) |->
                  [title |-> file.recs[i], rating_key |-> None,
                   year |-> None]])
    ELSE None

\* random.shuffle(movies): any reordering
Shuffles(list) ==
    LET n == Len(list)
        perms == {p \in [1..n -> 1..n] :
                     \A i, j \in 1..n : i # j => p[i] # p[j]}
    IN  {[i \in 1..n |-> list[p[i]]] : p \in perms}

IsDigits(s) == s # <<>> /\ \A i \in 1..Len(s) : s[i] \in Digits

\* fetch_movie_by_rating_key; answers tells whether the server call went
\* through.  int() of a non-number and a missing item both raise, caught.
fetch_movie_by_rating_key(rating_key, answers) ==
    IF ~answers \/ ~IsDigits(rating_key) THEN None
    ELSE FirstAt(Metadata, {i \in 1..Len(Metadata) :
                               Metadata[i].ratingKey = ParseInt(rating_key)})

\* refresher.find_movie_by_title; a failed search is caught
find_movie_by_title(title, answers) ==
    IF ~answers THEN None
    ELSE LET found == find_plex_movie_by_title(title)
         IN  IF found = None THEN None
             ELSE Some(WithType(found[1], MovieType))


\* lines 162-172 for one record: by rating key when the record has one,
\* by title when that gave nothing.  The result says which lookups were
\* made and what the record resolved to.  key_answers and title_answers
\* tell whether the server answers the two kinds of lookup.
ResolveRecord(movie_data, key_answers, title_answers) ==
    LET rating_key == movie_data.rating_key
        by_key == IF rating_key # <<>>
                  THEN fetch_movie_by_rating_key(rating_key, key_answers)
                  ELSE None
        movie == IF by_key = None
                 THEN find_movie_by_title(movie_data.title, title_answers)
                 ELSE by_key
    IN  [record |-> movie_data,
         key_tried |-> rating_key # <<>>,
         key_hit |-> by_key # None,
         title_tried |-> by_key = None,
         error |-> \/ rating_key # <<>> /\ ~key_answers
                   \/ by_key = None /\ ~title_answers,
         movie |-> movie]

\* the loop of lines 158-187 over the whole list; during one pass each
\* kind of lookup is answered or fails throughout
ResolveAll(list) ==
    {[i \in 1..Len(list) |->
         ResolveRecord(list[i], key_answers, title_answers)] :
     key_answers \in BOOLEAN, title_answers \in BOOLEAN}

\* variant: the media kind is not looked at
IsMovie_any(item) == TRUE

\* the test of lines 176-177 on a resolved item
IsMovie(item) == Lower(item.type) = MovieType

\* valid_movies, failed_movies and filtered_non_movies after the loop
valid_movies(res) ==
    LET Valid(r) == r.movie # None /\ IsMovie(r.movie[1])
        kept == SelectSeq(res, Valid)
    IN  [i \in 1..Len(kept) |-> kept[i].movie[1].ratingKey]

failed_movies(res) ==
    LET Failed(r) == r.movie = None
        kept == SelectSeq(res, Failed)
    IN  [i \in 1..Len(kept) |-> kept[i].record.title]

filtered_non_movies(res) ==
    LET Filtered(r) == r.movie # None /\ ~IsMovie(r.movie[1])
        kept == SelectSeq(res, Filtered)
    IN  [i \in 1..Len(kept) |-> kept[i].record.title]

\* lines 139-150: the collection handle and its members as the refresher
\* sees them.  members is None when there is no collection of that name.
\* Any failure but NotFound is logged and leaves existing_items empty.
ExistingChecks(members) ==
    IF members = None
    THEN {[collection |-> FALSE, existing_items |-> <<>>, error |-> FALSE]}
    ELSE {[collection |-> TRUE, existing_items |-> members[1],
           error |-> FALSE],
          \* section.collection() raised
          [collection |-> FALSE, existing_items |-> <<>>, error |-> TRUE],
          \* collection.items() raised
          [collection |-> TRUE, existing_items |-> <<>>, error |-> TRUE]}

Stats(added, failed, filtered) ==
    [added |-> added, failed |-> failed, filtered |-> filtered]

\* the members left when those in gone are taken out
Without(members, gone) ==
    LET Stays(k) == \A i \in 1..Len(gone) : gone[i] # k
    IN  SelectSeq(members, Stays)

\* the members after each key of keys not yet a member is added, in order
RECURSIVE WithAdded(_, _)
WithAdded(members, keys) ==
    IF keys = <<>> THEN members
    ELSE WithAdded(IF \E i \in 1..Len(members) : members[i] = Head(keys)
                   THEN members ELSE Append(members, Head(keys)),
                   Tail(keys))


\* one call of the remove or add step on the library: its name, the rating
\* keys it was given and whether it went through
\* a library call that returned (ok) or raised something other than
\* BadRequest
Call(name, keys, ok) ==
    [call |-> name, keys |-> keys, ok |-> ok,
     error |-> IF ok THEN "none" ELSE "Exception"]

\* a library call that raised plexapi's BadRequest
BadRequestCall(name, keys) ==
    [call |-> name, keys |-> keys, ok |-> FALSE, error |-> "BadRequest"]

\* the per-item removal of lines 222-231: every item is attempted, each
\* attempt goes through or fails (caught and logged)
RECURSIVE AlternativeRemoval(_, _, _)
AlternativeRemoval(members, items, log) ==
    IF items = <<>> THEN {[members |-> members, ops |-> log]}
    ELSE AlternativeRemoval(Without(members, <<Head(items)>>), Tail(items),
             Append(log, Call("removeCollection", <<Head(items)>>, TRUE)))
         \cup
         AlternativeRemoval(members, Tail(items),
             Append(log, Call("removeCollection", <<Head(items)>>, FALSE)))

\* variant: the removal is left out
ShouldRemove_never(existing_items, collection) == FALSE

\* the test of line 208
ShouldRemove(existing_items, collection) ==
    existing_items # <<>> /\ collection

\* variant: every failure of the bulk call leads to the per-item removal
OnBulkRemoveFailure_any(error) == "alternative"

\* where control goes when collection.removeItems raised: the handler of
\* line 216 starts the per-item removal, the handler of line 237 only logs
OnBulkRemoveFailure(error) ==
    IF error = "BadRequest" THEN "alternative" ELSE "add"

\* lines 207-239: the members of the collection after the removal step.
\* The bulk call goes through, or fails with BadRequest, which leads to
\* the per-item removal, or fails otherwise, which is only logged.
RemoveOutcomes(members, existing_items) ==
    LET bulk == Call("removeItems", existing_items, TRUE)
        After(failed) ==
            IF OnBulkRemoveFailure(failed.error) = "alternative"
            THEN AlternativeRemoval(members, existing_items, <<failed>>)
            ELSE {[members |-> members, ops |-> <<failed>>]}
    IN  {[members |-> Without(members, existing_items), ops |-> <<bulk>>]}
        \cup After(BadRequestCall("removeItems", existing_items))
        \cup After(Call("removeItems", existing_items, FALSE))

\* "if not collection" at line 256.  The handle is None when the lookup of
\* lines 141-150 gave none; a handle of a collection without members is
\* true or false depending on whether the library's collection class
\* defines a length.
CreateChoices(collection, members) ==
    IF ~collection THEN {TRUE}
    ELSE IF members = <<>> THEN {TRUE, FALSE}
    ELSE {FALSE}

\* variant: a failed add step reports no failure
FailedCount_none(valid, added_count) == 0

\* line 305: failed_count = len(valid_movies) - added_count
FailedCount(valid, added_count) == Len(valid) - added_count

\* lines 252-311: the add step, by createCollection or by addItems.  A
\* "mix media types" BadRequest is retried with the movies only (the same
\* list, lines 269 and 292); any other failure, or a failing retry, is
\* caught at line 303.  members is None when no collection of the name
\* exists.
AddOutcomes(create, members, valid) ==
    LET call == IF create THEN "createCollection" ELSE "addItems"
        base == IF members = None THEN <<>> ELSE members[1]
        n == Len(valid)
        done == Some(WithAdded(base, valid))
        Ok(log) == [members |-> done, added |-> n, failed_count |-> 0,
                    ops |-> log]
        \* created, then section.collection() raised before line 261
        Lost(log) == [members |-> done, added |-> 0,
                      failed_count |-> FailedCount(valid, 0),
                      ops |-> Append(log, Call("collection", <<>>, FALSE))]
        Failed(log) == [members |-> members, added |-> 0,
                        failed_count |-> FailedCount(valid, 0),
                        ops |-> log]
        first == <<Call(call, valid, TRUE)>>
        firstFailed == <<Call(call, valid, FALSE)>>
        mixed == <<BadRequestCall(call, valid)>>
        retried == Append(mixed, Call(call, valid, TRUE))
        retryFailed == Append(mixed, Call(call, valid, FALSE))
    IN  {Ok(first), Failed(firstFailed), Ok(retried), Failed(retryFailed)}
        \cup (IF create THEN {Lost(first), Lost(retried)} ELSE {})

(***************************************************************************)
(* refresher.main() and apply_collection_to_plex, step by step.            *)
(***************************************************************************)
\* most refresher runs in a row
MaxRefresherRuns == 2

CurName == COLLECTIONS[ci]
InLoop == fpc \in {"load", "resolve", "remove", "add", "tally"}

\* lines 349-419: configuration, server connection and library section
\* are there; the loop over COLLECTIONS starts
RefresherStart ==
    /\ fpc = "start"
    /\ fpc' = "load"
    /\ ci' = 1
    /\ total_stats' = ZeroStats
    /\ processed' = <<>>
    /\ start_collections' = collections
    /\ CollectionReset
    /\ UNCHANGED <<dry_run, runs, refresher_exit, collections>>
    /\ UNCHANGED <<raceVars, suggestVars, mainVars, runVars, worldVars, histVars>>

\* one of them raised: caught at line 493, exit code 1
RefresherStartFails ==
    /\ fpc = "start"
    /\ fpc' = "done"
    /\ refresher_exit' = Some(1)
    /\ UNCHANGED <<dry_run, runs, ci, shuffled_movies, existing, resolved,
                   ops, apply_stats, total_stats, processed,
                   start_collections, collections>>
    /\ UNCHANGED <<raceVars, suggestVars, mainVars, runVars, worldVars, histVars>>

\* the outcome recorded for a collection the loop went past with "continue"
Skipped == [skipped |-> TRUE, stats |-> None, trouble |-> FALSE]

\* variant: the shuffled order is written back
AfterShuffle_persisted(file, list) == WholeFile(list)

\* the snapshot file after lines 443-446: random.shuffle works on the list
\* in memory
AfterShuffle(file, list) == file

\* lines 421-446: the snapshot of the next collection is loaded; the
\* collection is skipped when there is nothing to load, else the list is
\* shuffled
LoadSnapshot ==
    /\ fpc = "load" /\ ci <= Len(COLLECTIONS)
    /\ LET loaded == load_collection_json(files[json_file(ci)])
       IN  IF loaded = None \/ loaded[1] = <<>>
           THEN /\ ci' = ci + 1
                /\ processed' = Append(processed, Skipped)
                /\ UNCHANGED <<fpc, shuffled_movies, files>>
           ELSE /\ \E list \in Shuffles(loaded[1]) :
                      /\ shuffled_movies' = list
                      /\ files' = [files EXCEPT ![json_file(ci)] =
                                      AfterShuffle(@, list)]
                /\ fpc' = "resolve"
                /\ UNCHANGED <<ci, processed>>
    /\ UNCHANGED <<dry_run, runs, existing, resolved, ops, apply_stats,
                   total_stats, refresher_exit, start_collections,
                   collections>>
    /\ UNCHANGED <<raceVars, suggestVars, mainVars, runVars, catalog, tags, histVars>>

\* variant: the removal step is entered with nothing to add
AfterResolve_remove_anyway(valid, dry) ==
    IF dry THEN "dry" ELSE "remove"

\* variant: a dry run is treated like any other
AfterResolve_no_dry_run(valid, dry) ==
    IF valid = <<>> THEN "none" ELSE "remove"

\* what follows the resolution loop: the returns of lines 195-197 and
\* 201-205, or the removal step
AfterResolve(valid, dry) ==
    IF valid = <<>> THEN "none"
    ELSE IF dry THEN "dry"
    ELSE "remove"

\* lines 138-205: the existing collection is looked up, every record is
\* resolved, and the function returns when nothing is valid or on a dry run
Resolve ==
    /\ fpc = "resolve"
    /\ \E chk \in ExistingChecks(collections[CurName]),
          res \in ResolveAll(shuffled_movies) :
          LET valid == valid_movies(res)
              next == AfterResolve(valid, dry_run)
          IN  /\ existing' = chk
              /\ resolved' = res
              /\ IF next = "remove"
                 THEN fpc' = "remove" /\ UNCHANGED apply_stats
                 ELSE /\ fpc' = "tally"
                      /\ apply_stats' =
                            Some(Stats(IF next = "dry" THEN Len(valid) ELSE 0,
                                       Len(failed_movies(res)),
                                       Len(filtered_non_movies(res))))
    /\ UNCHANGED <<dry_run, runs, ci, shuffled_movies, ops, total_stats,
                   refresher_exit, processed, start_collections,
                   collections>>
    /\ UNCHANGED <<raceVars, suggestVars, mainVars, runVars, worldVars, histVars>>

\* lines 207-239: the removal step
Remove ==
    /\ fpc = "remove"
    /\ IF ShouldRemove(existing.existing_items, existing.collection)
       THEN \E o \in RemoveOutcomes(collections[CurName][1],
                                    existing.existing_items) :
               /\ collections' = [collections EXCEPT ![CurName] =
                                     Some(o.members)]
               /\ ops' = ops \o o.ops
       ELSE UNCHANGED <<collections, ops>>
    /\ fpc' = "add"
    /\ UNCHANGED <<dry_run, runs, ci, shuffled_movies, existing, resolved,
                   apply_stats, total_stats, refresher_exit, processed,
                   start_collections>>
    /\ UNCHANGED <<raceVars, suggestVars, mainVars, runVars, worldVars, histVars>>

\* variant: a failing add ends the run
OnAddFailure_abort == "failed"

\* where control goes when the add step failed: line 303 catches, the
\* function returns its counts
OnAddFailure == "tally"

\* lines 241-311: the add step and the returned counts
Add ==
    /\ fpc = "add"
    /\ LET valid == valid_movies(resolved)
           now == collections[CurName]
       IN  \E create \in CreateChoices(existing.collection,
                                       IF now = None THEN <<>> ELSE now[1]) :
           \E o \in AddOutcomes(create, now, valid) :
              /\ collections' = [collections EXCEPT ![CurName] = o.members]
              /\ ops' = ops \o o.ops
              /\ apply_stats' =
                    Some(Stats(o.added,
                               o.failed_count + Len(failed_movies(resolved)),
                               Len(filtered_non_movies(resolved))))
              /\ IF o.added = 0 /\ OnAddFailure # "tally"
                 THEN fpc' = "done" /\ refresher_exit' = Some(1)
                 ELSE fpc' = "tally" /\ UNCHANGED refresher_exit
    /\ UNCHANGED <<dry_run, runs, ci, shuffled_movies, existing, resolved,
                   total_stats, processed, start_collections>>
    /\ UNCHANGED <<raceVars, suggestVars, mainVars, runVars, worldVars, histVars>>

\* a library call failed while the current collection was handled
Trouble ==
    \/ existing.error
    \/ \E i \in 1..Len(resolved) : resolved[i].error
    \/ \E i \in 1..Len(ops) : ~ops[i].ok

\* lines 465-470: the returned counts go into total_stats and the loop
\* moves on
Tally ==
    /\ fpc = "tally"
    /\ total_stats' =
          [collections_processed |-> total_stats.collections_processed + 1,
           total_added |-> total_stats.total_added + apply_stats[1].added,
           total_failed |-> total_stats.total_failed + apply_stats[1].failed,
           total_filtered |->
               total_stats.total_filtered + apply_stats[1].filtered]
    /\ processed' = Append(processed,
                           [skipped |-> FALSE, stats |-> apply_stats,
                            trouble |-> Trouble])
    /\ ci' = ci + 1
    /\ fpc' = "load"
    /\ CollectionReset
    /\ UNCHANGED <<dry_run, runs, refresher_exit, start_collections,
                   collections>>
    /\ UNCHANGED <<raceVars, suggestVars, mainVars, runVars, worldVars, histVars>>

\* lines 472-487: every entry of COLLECTIONS was handled
RefresherSummary ==
    /\ fpc = "load" /\ ci > Len(COLLECTIONS)
    /\ fpc' = "done"
    /\ refresher_exit' = Some(0)
    /\ UNCHANGED <<dry_run, runs, ci, shuffled_movies, existing, resolved,
                   ops, apply_stats, total_stats, processed,
                   start_collections, collections>>
    /\ UNCHANGED <<raceVars, suggestVars, mainVars, runVars, worldVars, histVars>>

\* KeyboardInterrupt anywhere in the loop: lines 489-492
RefresherInterrupt ==
    /\ InLoop
    /\ fpc' = "done"
    /\ refresher_exit' = Some(130)
    /\ CollectionReset
    /\ UNCHANGED <<dry_run, runs, ci, total_stats, processed,
                   start_collections, collections>>
    /\ UNCHANGED <<raceVars, suggestVars, mainVars, runVars, worldVars, histVars>>

\* the scheduler starts the refresher again with the same arguments
RefresherAgain ==
    /\ fpc = "done" /\ runs < MaxRefresherRuns
    /\ fpc' = "start"
    /\ runs' = runs + 1
    /\ refresher_exit' = None
    /\ ci' = 0
    /\ total_stats' = ZeroStats
    /\ processed' = <<>>
    /\ CollectionReset
    /\ UNCHANGED <<dry_run, start_collections, collections>>
    /\ UNCHANGED <<raceVars, suggestVars, mainVars, runVars, worldVars, histVars>>

(***************************************************************************)
(* The refresher run on its own, from any snapshot and collection.         *)
(***************************************************************************)
RecByKey == SnapshotRecord(Library[2])
RecShow == [title |-> Aki, rating_key |-> <<"9">>, year |-> None]
RecGone == [title |-> Zip, rating_key |-> <<"9", "9">>, year |-> None]
RecStale == [title |-> Aki, rating_key |-> <<"7", "7">>, year |-> None]
SnapshotPool == {RecByKey, RecShow, RecGone, RecStale}

\* what the first snapshot file may hold
SnapshotFiles ==
    {AbsentFile, CutFile(<<RecByKey, RecShow>>, 1), TitlesFile(<<PAP>>)}
    \cup {WholeFile(list) : list \in SeqsUpTo(SnapshotPool, MaxRecords)}

\* the members the first collection may start with; None: no collection
StartMembers == {None, Some(<<>>), Some(<<3, 12>>)}

World(first, members, second, others) ==
    [files |-> [n \in FileNames |->
                   IF n = json_file(1) THEN first ELSE second],
     collections |-> [n \in CollectionNames |->
                         IF n = COLLECTIONS[1] THEN members ELSE others]]

\* The worlds a refresher run may start in: any first snapshot and first
\* collection with no second snapshot, or a second snapshot of two records
\* after a first one that is missing, cut or of one record.
RefresherWorlds ==
    {World(first, members, AbsentFile, Some(<<3>>)) :
        first \in SnapshotFiles, members \in StartMembers}
    \cup
    {World(first, Some(<<3, 12>>), WholeFile(<<RecShow, RecByKey>>), others) :
        first \in {AbsentFile, CutFile(<<RecByKey, RecShow>>, 1),
                   WholeFile(<<RecByKey>>)},
        others \in {None, Some(<<3>>)}}

RefresherInit ==
    /\ NoSuggestCall
    /\ NoRace
    /\ fpc = "start"
    /\ dry_run \in BOOLEAN
    /\ runs = 1
    /\ ci = 0
    /\ shuffled_movies = <<>>
    /\ existing = NoCheck
    /\ resolved = <<>>
    /\ ops = <<>>
    /\ apply_stats = None
    /\ total_stats = ZeroStats
    /\ refresher_exit = None
    /\ processed = <<>>
    /\ \E w \in RefresherWorlds :
          /\ files = w.files
          /\ collections = w.collections
          /\ start_collections = w.collections
    /\ mpc = "refresher"
    /\ run_refresher = FALSE
    /\ exit_code = 0
    /\ returned = None
    /\ stats = [f \in Flavors |-> None]
    /\ refresher_result = "not run"
    /\ rpc = "idle"
    /\ recommendations = <<>>
    /\ lookups = <<>>
    /\ collection_movies = <<>>
    /\ missing_in_plex = <<>>
    /\ missing_seen = {}
    /\ saved_to_json = FALSE
    /\ sent_to_radarr = 0
    /\ raisedAt = "none"
    /\ attempted = <<>>
    /\ last_req = None
    /\ file_before = AbsentFile
    /\ catalog = <<>>
    /\ tags = {}
    /\ lastReturned = [f \in Flavors |-> None]
    /\ lastSaved = [f \in Flavors |-> None]
    /\ writeFailed = [f \in Flavors |-> FALSE]

RefresherNext ==
    \/ RefresherStart
    \/ RefresherStartFails
    \/ LoadSnapshot
    \/ Resolve
    \/ Remove
    \/ Add
    \/ Tally
    \/ RefresherSummary
    \/ RefresherInterrupt
    \/ RefresherAgain

SpecRefresher == RefresherInit /\ [][RefresherNext]_vars

(***************************************************************************)
(* A suggestion function called on its own, on any answer.                 *)
(***************************************************************************)
\* longest answer, in lines, and largest max_results
MaxAnswerLines == 3
MaxWanted == 3

\* "", "- ", "aki", "1)In" and the lines of RawLines
AnswerLines ==
    RawLines \cup {<<>>, <<"-", " ">>, <<"a", "k", "i">>,
                   <<"1", ")">> \o In}

SuggestInit ==
    /\ NoRace
    /\ raw_lines \in SeqsUpTo(AnswerLines, MaxAnswerLines)
    /\ max_wanted \in 0..MaxWanted
    /\ variant \in Flavors
    /\ suggested = None
    /\ fpc = "idle"
    /\ dry_run = FALSE
    /\ runs = 0
    /\ ci = 0
    /\ shuffled_movies = <<>>
    /\ existing = NoCheck
    /\ resolved = <<>>
    /\ ops = <<>>
    /\ apply_stats = None
    /\ total_stats = ZeroStats
    /\ refresher_exit = None
    /\ processed = <<>>
    /\ collections = [n \in CollectionNames |-> None]
    /\ start_collections = [n \in CollectionNames |-> None]
    /\ files = [n \in FileNames |-> AbsentFile]
    /\ mpc = "suggest"
    /\ run_refresher = FALSE
    /\ exit_code = 0
    /\ returned = None
    /\ stats = [f \in Flavors |-> None]
    /\ refresher_result = "not run"
    /\ rpc = "idle"
    /\ recommendations = <<>>
    /\ lookups = <<>>
    /\ collection_movies = <<>>
    /\ missing_in_plex = <<>>
    /\ missing_seen = {}
    /\ saved_to_json = FALSE
    /\ sent_to_radarr = 0
    /\ raisedAt = "none"
    /\ attempted = <<>>
    /\ last_req = None
    /\ file_before = AbsentFile
    /\ catalog = <<>>
    /\ tags = {}
    /\ lastReturned = [f \in Flavors |-> None]
    /\ lastSaved = [f \in Flavors |-> None]
    /\ writeFailed = [f \in Flavors |-> FALSE]

\* the call returns
SuggestCall ==
    /\ suggested = None
    /\ suggested' = Some(IF variant = "related"
                         THEN get_related_movies(raw_lines, max_wanted)
                         ELSE get_contrast_movies(raw_lines, max_wanted))
    /\ UNCHANGED <<raw_lines, max_wanted, variant>>
    /\ UNCHANGED <<collections, refLocals, raceVars>>
    /\ UNCHANGED <<mainVars, runVars, worldVars, histVars>>

SuggestNext == SuggestCall

SpecSuggest == SuggestInit /\ [][SuggestNext]_vars

(***************************************************************************)
(* Two reconcile runs of one flavor at their step 3, at the same time.     *)
(* Each run is a process of its own; save_collection_to_json opens the     *)
(* file with mode "w" and json.dump writes through the file object's       *)
(* buffer, which reaches the file in one or several writes.  Nothing       *)
(* orders the two runs' opens and writes.                                  *)
(***************************************************************************)
\* longest present list of a run
MaxPresent == 2

Procs == {1, 2}

\* what json.dump(movies, f) writes: "[", a cell per record, "]"
OpenMark == [kind |-> "[", rec |-> None]
CloseMark == [kind |-> "]", rec |-> None]
RecCell(r) == [kind |-> "record", rec |-> Some(r)]
\* what a write past the end of the file leaves in between
HoleCell == [kind |-> "hole", rec |-> None]

Dump(list) ==
    <<OpenMark>> \o [i \in 1..Len(list) |-> RecCell(list[i])] \o <<CloseMark>>

\* the file after write(2) of cells at position offset: the cells at
\* offset+1.. are replaced, the file grows when needed, what lies behind
\* the written cells stays
Overwrite(old, offset, cells) ==
    LET end == offset + Len(cells)
        len == IF end > Len(old) THEN end ELSE Len(old)
    IN  [i \in 1..len |->
            IF i > offset /\ i <= end THEN cells[i - offset]
            ELSE IF i <= Len(old) THEN old[i]
            ELSE HoleCell]

\* the present lists a run can have built: no movie twice
PresentLists ==
    {list \in SeqsUpTo({SnapshotRecord(Library[i]) : i \in 1..3},
                       MaxPresent) :
        \A i, j \in 1..Len(list) : i # j => list[i] # list[j]}

\* the file as json.load would find it
ReadBack(cells) ==
    IF \E list \in SeqsUpTo({SnapshotRecord(Library[i]) :
                                i \in 1..Len(Library)}, Len(cells)) :
          cells = Dump(list)
    THEN WholeFile([i \in 1..(Len(cells) - 2) |-> cells[i + 1].rec[1]])
    ELSE [state |-> "partial", recs |-> <<>>]

\* a run whose loop over the candidates is over
AtSave(list) ==
    [pc |-> "save", present |-> list, offset |-> 0, saved_to_json |-> FALSE]

RaceInit ==
    /\ NoSuggestCall
    /\ racing \in Flavors
    /\ writer \in [Procs -> {AtSave(list) : list \in PresentLists}]
    /\ mpc = "race"
    /\ fpc = "idle"
    /\ dry_run = FALSE
    /\ runs = 0
    /\ ci = 0
    /\ shuffled_movies = <<>>
    /\ existing = NoCheck
    /\ resolved = <<>>
    /\ ops = <<>>
    /\ apply_stats = None
    /\ total_stats = ZeroStats
    /\ refresher_exit = None
    /\ processed = <<>>
    /\ collections = [n \in CollectionNames |-> None]
    /\ start_collections = [n \in CollectionNames |-> None]
    /\ \E prior \in {None, Some(PriorSnapshot)} :
          /\ disk = IF prior = None THEN <<>> ELSE Dump(prior[1])
          /\ files = [n \in FileNames |->
                         IF prior # None /\ n = JSON_FILE(racing)
                         THEN WholeFile(prior[1]) ELSE AbsentFile]
    /\ run_refresher = FALSE
    /\ exit_code = 0
    /\ returned = None
    /\ stats = [f \in Flavors |-> None]
    /\ refresher_result = "not run"
    /\ rpc = "idle"
    /\ recommendations = <<>>
    /\ lookups = <<>>
    /\ collection_movies = <<>>
    /\ missing_in_plex = <<>>
    /\ missing_seen = {}
    /\ saved_to_json = FALSE
    /\ sent_to_radarr = 0
    /\ raisedAt = "none"
    /\ attempted = <<>>
    /\ last_req = None
    /\ file_before = AbsentFile
    /\ catalog = <<>>
    /\ tags = {}
    /\ lastReturned = [f \in Flavors |-> None]
    /\ lastSaved = [f \in Flavors |-> None]
    /\ writeFailed = [f \in Flavors |-> FALSE]

RaceFrame ==
    /\ UNCHANGED <<racing, collections, refLocals, suggestVars>>
    /\ UNCHANGED <<mainVars, runVars, catalog, tags, histVars>>

\* "if collection_movies:" is false: nothing is written
RaceSkip(p) ==
    /\ writer[p].pc = "save"
    /\ ~ShouldSave(writer[p].present)
    /\ writer' = [writer EXCEPT ![p].pc = "done"]
    /\ UNCHANGED <<disk, files>>
    /\ RaceFrame

\* open(json_path, "w"): the file is created or cut to length 0
RaceOpen(p) ==
    /\ writer[p].pc = "save"
    /\ ShouldSave(writer[p].present)
    /\ writer' = [writer EXCEPT ![p].pc = "dump", ![p].offset = 0]
    /\ disk' = <<>>
    /\ files' = [files EXCEPT ![JSON_FILE(racing)] = ReadBack(disk')]
    /\ RaceFrame

\* the buffer is flushed: the next cells of the dump go to the file at
\* this run's own position
RaceWrite(p) ==
    /\ writer[p].pc = "dump"
    /\ LET text == Dump(writer[p].present)
           at == writer[p].offset
       IN  /\ at < Len(text)
           /\ \E n \in 1..(Len(text) - at) :
                 /\ disk' = Overwrite(disk, at, SubSeq(text, at + 1, at + n))
                 /\ writer' = [writer EXCEPT ![p].offset = at + n]
    /\ files' = [files EXCEPT ![JSON_FILE(racing)] = ReadBack(disk')]
    /\ RaceFrame

\* the with block is left, saved_to_json = True, the run goes on
RaceClose(p) ==
    /\ writer[p].pc = "dump"
    /\ writer[p].offset = Len(Dump(writer[p].present))
    /\ writer' = [writer EXCEPT ![p].pc = "done",
                                ![p].saved_to_json = TRUE]
    /\ UNCHANGED <<disk, files>>
    /\ RaceFrame

RaceNext ==
    \E p \in Procs :
        \/ RaceSkip(p)
        \/ RaceOpen(p)
        \/ RaceWrite(p)
        \/ RaceClose(p)

SpecRace == RaceInit /\ [][RaceNext]_vars

(***************************************************************************)
(* Properties.                                                             *)
(***************************************************************************)
CurFile == files[JSON_FILE(mpc)]
AfterSaveStep == InReconcile /\ rpc \in {"radarr", "return"}
Found(i) == lookups[i].result = "found"
SomeFound == \E i \in 1..Len(lookups) : Found(i)
LoopOver == [i \in 1..Len(lookups) |-> lookups[i].title] = recommendations

\* C1: a reconcile run (either flavor) in which no candidate resolved to a
\* library item, every lookup raising included, leaves the snapshot file
\* as it was before the run and reports snapshot_written false.
C1_NoPresentNoWrite ==
    (AfterSaveStep /\ ~SomeFound) =>
        (CurFile = file_before /\ saved_to_json = FALSE)

\* a contrast run over two candidates whose lookups both raised, with an
\* earlier snapshot on disk
C1_Witness ==
    /\ mpc = "contrast" /\ rpc = "return"
    /\ Len(lookups) = 2
    /\ \A i \in 1..2 : lookups[i].result = "error"
    /\ file_before = WholeFile(PriorSnapshot)

LibraryMatch(title) ==
    Library[CHOOSE i \in 1..Len(Library) :
                /\ Lower(Library[i].title) = Lower(title)
                /\ \A j \in 1..(i - 1) :
                      Lower(Library[j].title) # Lower(title)]

\* one record per found candidate, in the order the candidates were met
RECURSIVE PresentRecords(_)
PresentRecords(looked) ==
    IF looked = <<>> THEN <<>>
    ELSE LET rest == PresentRecords(SubSeq(looked, 1, Len(looked) - 1))
             last == looked[Len(looked)]
             item == LibraryMatch(last.title)
         IN  IF last.result = "found"
             THEN Append(rest, [title |-> item.title,
                                rating_key |-> ToStr(item.ratingKey),
                                year |-> item.year])
             ELSE rest

\* C3: once a run that found at least one candidate is past its write, the
\* snapshot file holds exactly one (title, stable id, year) record per
\* present candidate, in encounter order, nothing of its earlier content,
\* and snapshot_written is true.
C3_SnapshotIsPresent ==
    (AfterSaveStep /\ SomeFound) =>
        /\ saved_to_json = TRUE
        /\ CurFile.state = "valid"
        /\ CurFile.recs = PresentRecords(lookups)
        /\ Len(CurFile.recs) = Cardinality({i \in 1..Len(lookups) : Found(i)})

\* one candidate found, one absent, written over an earlier snapshot that
\* held other records
C3_Witness ==
    /\ InReconcile /\ rpc = "return"
    /\ Len(lookups) = 2
    /\ lookups[1] = Looked(PAP, "found") /\ lookups[2].result = "absent"
    /\ file_before = WholeFile(PriorSnapshot)
    /\ CurFile = WholeFile(<<SnapshotRecord(Library[2])>>)

\* the titles not found, first occurrence ignoring case, in encounter order
RECURSIVE MissingTitles(_)
MissingTitles(looked) ==
    IF looked = <<>> THEN <<>>
    ELSE LET rest == MissingTitles(SubSeq(looked, 1, Len(looked) - 1))
             last == looked[Len(looked)]
         IN  IF /\ last.result # "found"
                /\ \A i \in 1..Len(rest) :
                      Lower(rest[i]) # Lower(Strip(last.title))
             THEN Append(rest, Strip(last.title))
             ELSE rest

\* C4: a lookup that raises puts its candidate on the missing list just as
\* an absence does, does not end the reconcile call, and the candidates
\* after it are still looked up, in order.
C4_LookupErrorIsMissing ==
    InReconcile =>
        /\ missing_in_plex = MissingTitles(lookups)
        /\ \A i \in 1..Len(lookups) :
              lookups[i].title = recommendations[i]
        /\ rpc = "raised" => raisedAt \in {"suggest", "save"}
        /\ rpc \in {"radarr", "return"} => LoopOver

\* the first lookup raised, the second candidate was still looked up and
\* found, and the run returned
C4_Witness ==
    /\ InReconcile /\ rpc = "return"
    /\ Len(lookups) = 2
    /\ lookups[1].result = "error" /\ lookups[2].result = "found"
    /\ missing_in_plex = <<recommendations[1]>>

\* C5: when the Suggestion Source fails the failure leaves reconcile, and
\* the run has made no library lookup, has not touched the snapshot file
\* and has not called the Acquisition Requester.
C5_SuggestFailureAborts ==
    (InReconcile /\ raisedAt = "suggest") =>
        /\ rpc = "raised"
        /\ lookups = <<>>
        /\ CurFile = file_before
        /\ attempted = <<>>
    /\ last_req = None

\* the contrast suggestion failed with an earlier snapshot on disk
C5_Witness ==
    /\ mpc = "contrast" /\ rpc = "raised" /\ raisedAt = "suggest"
    /\ file_before = WholeFile(PriorSnapshot)

\* C6: the Acquisition Requester is called only when every candidate has
\* been looked up and the snapshot, if anything is present, is written; a
\* failed write leaves reconcile as an exception and the Acquisition
\* Requester is not called.
C6_AcquireAfterSave ==
    InReconcile =>
        /\ attempted # <<>> =>
              /\ LoopOver
              /\ SomeFound =>
                    (saved_to_json /\ CurFile = WholeFile(collection_movies))
        /\ raisedAt = "save" => (rpc = "raised" /\ attempted = <<>>)

\* the requester was called for one missing title after the snapshot of
\* the one present title was written
C6_Witness ==
    /\ InReconcile /\ rpc = "return"
    /\ attempted # <<>> /\ saved_to_json
    /\ sent_to_radarr = 1
    /\ CurFile # file_before

AcquireRaised == last_req # None /\ last_req[1].propagated

\* C7: when the Acquisition Requester call raises, reconcile still returns
\* its counts (found, missing, snapshot_written, and 0 requests) and a
\* snapshot written in the run stays as written.
C7_AcquireFailureTolerated ==
    (InReconcile /\ AcquireRaised) =>
        /\ rpc = "return"
        /\ ReturnedStats =
              [found_in_plex |->
                   Cardinality({i \in 1..Len(lookups) : Found(i)}),
               missing_in_plex |-> Len(MissingTitles(lookups)),
               saved_to_json |-> SomeFound,
               sent_to_radarr |-> 0]
        /\ SomeFound => CurFile = WholeFile(PresentRecords(lookups))

\* the catalog listing failed after the snapshot was written
C7_Witness ==
    /\ InReconcile /\ rpc = "return" /\ AcquireRaised
    /\ saved_to_json
    /\ CurFile # file_before

\* C8: in main(), an Exception from the related reconcile is followed by the
\* call of the contrast reconcile, and nothing the contrast reconcile does
\* changes the related snapshot file.
C8_FlavorsIndependent ==
    [][/\ (mpc = "related" /\ rpc = "raised" /\ returned' = None) =>
              (mpc' = "contrast" /\ rpc' = "suggest")
       /\ mpc = "contrast" =>
              files'[JSON_FILE("related")] = files[JSON_FILE("related")]
      ]_vars

\* the related reconcile raised and the contrast reconcile still ran and
\* returned
C8_Witness ==
    /\ mpc = "summary" /\ exit_code = 1
    /\ stats["related"] = None
    /\ stats["contrast"] # None

\* C9: every title handed to radarr_process_missing_titles is attempted,
\* whatever failed for the titles before it.
C9_EveryTitleAttempted ==
    (InReconcile /\ rpc = "return" /\ missing_in_plex # <<>>) =>
        attempted = missing_in_plex

\* catalog items whose title equals the given title ignoring case
TitleMatches(title) ==
    {i \in 1..Len(catalog) : Lower(catalog[i].title) = Lower(title)}

\* C10: for a title that equals, ignoring case, the title of an item in the
\* catalog, no create request is issued; once the catalog listing answered,
\* a monitored=true update is issued when the matching items are
\* unmonitored and no write request at all when they are monitored.
C10_ExistingTitleNotCreated ==
    [][(rpc = "radarr" /\ Len(attempted') = Len(attempted) + 1) =>
          LET title == missing_in_plex[Len(attempted) + 1]
              done == last_req'[1]
              Issued(r) == \E i \in 1..Len(done.reqs) : done.reqs[i] = r
          IN  TitleMatches(title) # {} =>
                /\ ~Issued("POST movie") /\ ~Issued("POST tag")
                /\ (\A i \in TitleMatches(title) : catalog[i].monitored) =>
                      done.reqs = <<>>
                /\ (/\ \A i \in TitleMatches(title) : ~catalog[i].monitored
                    /\ done.path # "listing") =>
                      done.reqs = <<"PUT movie">>
      ]_vars

\* "Zip" was handled while the catalog held an unmonitored "zip": the
\* update was issued and the item is monitored now
C10_Witness ==
    /\ InReconcile /\ last_req # None
    /\ last_req[1].title = Zip
    /\ last_req[1].reqs = <<"PUT movie">>
    /\ catalog[1].title = zip /\ catalog[1].monitored
    /\ Len(catalog) = 1

\* no two items of the catalog carry the same tmdbId
NoDuplicateIds(cat) ==
    \A i, j \in 1..Len(cat) : i # j => cat[i].tmdbId # cat[j].tmdbId

\* C11: the catalog never holds two items with the same tmdbId; and when
\* the id a title resolved to is already in the catalog, handling the title
\* creates no item and, unless a request failed, leaves the holder of the id
\* monitored.
C11_NoDuplicateExternalId ==
    /\ []NoDuplicateIds(catalog)
    /\ [][(rpc = "radarr" /\ Len(attempted') = Len(attempted) + 1) =>
             LET done == last_req'[1]
                 holders == {i \in 1..Len(catalog) :
                                Some(catalog[i].tmdbId) = done.tmdb_id}
             IN  holders # {} =>
                   /\ Len(catalog') = Len(catalog)
                   /\ \A k \in 1..Len(done.reqs) : done.reqs[k] # "POST movie"
                   /\ ~done.caught =>
                         \A i \in holders : catalog'[i].monitored
         ]_vars

\* in one batch the first title was created with tmdbId 2 and the second,
\* different title resolved to the same id: nothing was created for it
C11_Witness ==
    /\ mpc = "related" /\ Len(attempted) = 2
    /\ attempted[1] # attempted[2]
    /\ Len(catalog) = 2
    /\ catalog[2].title = attempted[1] /\ catalog[2].tmdbId = 2
    /\ last_req # None
    /\ last_req[1].title = attempted[2]
    /\ last_req[1].path = "add"
    /\ last_req[1].tmdb_id = Some(2)
    /\ ~last_req[1].caught

(***************************************************************************)
(* Properties of the refresher.                                            *)
(***************************************************************************)
\* the rating keys of the movie items the records of a snapshot file
\* resolve to when every lookup is answered
ResolvableKeys(file) ==
    LET loaded == load_collection_json(file)
        list == IF loaded = None THEN <<>> ELSE loaded[1]
        Item(i) == ResolveRecord(list[i], TRUE, TRUE).movie
    IN  {Item(i)[1].ratingKey :
            i \in {j \in 1..Len(list) :
                      Item(j) # None /\ Item(j)[1].type = MovieType}}

\* the rating keys of the members of a collection; none when it is absent
Members(name) ==
    IF collections[name] = None THEN {}
    ELSE {collections[name][1][i] : i \in 1..Len(collections[name][1])}

\* a refresher run that was not a dry run has ended with exit code 0
RefreshedAll == fpc = "done" /\ refresher_exit = Some(0) /\ ~dry_run

\* the i-th collection has a snapshot that loads, and no library call
\* failed while it was handled
CleanlyHandled(i) ==
    /\ i <= Len(processed)
    /\ ~processed[i].trouble
    /\ load_collection_json(files[json_file(i)]) # None

ResolvedToMovie ==
    {i \in 1..Len(resolved) :
        resolved[i].movie # None /\ resolved[i].movie[1].type = MovieType}

\* C13: in a dry run no call of the remove or add step is made and no
\* collection changes, for every snapshot and every starting collection;
\* the added count returned is the number of records that resolved to a
\* movie item.
C13_DryRunMutatesNothing ==
    dry_run =>
        /\ ops = <<>>
        /\ collections = start_collections
        /\ apply_stats # None =>
              apply_stats[1].added = Cardinality(ResolvedToMovie)

\* a dry run over a snapshot of a movie and a show, with a collection
\* holding two other members: one would be added, the members are as
\* they were
C13_Witness ==
    /\ dry_run /\ fpc = "tally" /\ ci = 1
    /\ Len(resolved) = 2 /\ Cardinality(ResolvedToMovie) = 1
    /\ apply_stats = Some(Stats(1, 0, 1))
    /\ existing.existing_items = <<3, 12>>
    /\ collections[CurName] = Some(<<3, 12>>)

\* the snapshot file of the i-th collection is missing or is not valid JSON
Unloadable(i) == files[json_file(i)].state \in {"absent", "partial"}

\* C14: a collection whose snapshot file is missing or not valid JSON is
\* passed over without any call on that collection and with its members
\* untouched, the loop goes on to the next collection, and a run in which
\* a collection was passed over ends with exit code 0 unless interrupted.
C14_UnloadableSnapshotSkipped ==
    /\ [](\A i \in 1..Len(processed) :
             Unloadable(i) =>
                 /\ processed[i].skipped
                 /\ collections[COLLECTIONS[i]] =
                       start_collections[COLLECTIONS[i]])
    /\ [](refresher_exit = Some(0) => Len(processed) = Len(COLLECTIONS))
    /\ []((fpc = "done" /\ \E i \in 1..Len(processed) : processed[i].skipped)
              => refresher_exit \in {Some(0), Some(130)})
    /\ [][(fpc = "load" /\ ci <= Len(COLLECTIONS) /\ Unloadable(ci)
           /\ fpc' # "done") =>
             (fpc' = "load" /\ ci' = ci + 1 /\ ops' = <<>>
              /\ collections' = collections)]_vars

\* the first snapshot was cut off and its collection, holding members, was
\* left alone; the second collection was still created with its one movie
C14_Witness ==
    /\ fpc = "done" /\ refresher_exit = Some(0) /\ ~dry_run
    /\ files[json_file(1)].state = "partial"
    /\ processed[1].skipped
    /\ collections[COLLECTIONS[1]] = Some(<<3, 12>>)
    /\ ~processed[2].skipped
    /\ processed[2].stats = Some(Stats(1, 0, 1))
    /\ collections[COLLECTIONS[2]] = Some(<<12>>)

\* the list refresher.main() holds for the current collection is a
\* reordering of what the snapshot file holds
ShuffledFromFile ==
    fpc \in {"resolve", "remove", "add", "tally"} =>
        LET loaded == load_collection_json(files[json_file(ci)])
        IN  loaded # None /\ shuffled_movies \in Shuffles(loaded[1])

\* C15: no step of a refresher run, dry or not, successful or failed,
\* changes a snapshot file, and the list each run works on is a reordering
\* of the records as the file holds them.
C15_SnapshotNeverWritten ==
    /\ [][files' = files]_vars
    /\ []ShuffledFromFile

\* the second run in a row works on the reverse of the file's order, and
\* the file still holds its records in the order it had
C15_Witness ==
    /\ runs = 2 /\ fpc = "add" /\ ci = 1
    /\ files[json_file(1)] = WholeFile(<<RecGone, RecByKey>>)
    /\ shuffled_movies = <<RecByKey, RecGone>>

\* the item with the given rating key, whatever its kind
ItemsByKey(rating_key) ==
    {i \in 1..Len(Metadata) : ToStr(Metadata[i].ratingKey) = rating_key}

\* the movies of the section whose title equals the given one ignoring case
MoviesByTitle(title) ==
    {i \in 1..Len(Library) : Lower(Library[i].title) = Lower(title)}

\* the rating keys handed to createCollection and addItems so far
AddedKeys ==
    UNION {{ops[i].keys[k] : k \in 1..Len(ops[i].keys)} :
           i \in {j \in 1..Len(ops) :
                     ops[j].call \in {"createCollection", "addItems"}}}

\* C16: for every record the lookup by rating key is made exactly when the
\* record has one, and the lookup by title exactly when there is no key or
\* the key lookup gave nothing; with the lookups answered, a record whose
\* key is an item's resolves to that item even if a movie carries the
\* record's title.  An item that is not a movie is never handed to
\* createCollection or addItems and is counted in filtered; a record that
\* resolved to nothing is counted in failed.
C16_KeyFirstThenTitle ==
    /\ \A i \in 1..Len(resolved) :
          LET r == resolved[i]
              has_key == r.record.rating_key # <<>>
              by_key == ItemsByKey(r.record.rating_key)
              by_title == MoviesByTitle(r.record.title)
          IN  /\ r.key_tried = has_key
              /\ r.title_tried = (~has_key \/ ~r.key_hit)
              /\ ~r.error =>
                    /\ r.key_hit = (has_key /\ by_key # {})
                    /\ r.key_hit =>
                          \E k \in by_key : r.movie = Some(Metadata[k])
                    /\ (~r.key_hit /\ by_title # {}) =>
                          \E k \in by_title :
                              r.movie[1].ratingKey = Library[k].ratingKey
                    /\ (~r.key_hit /\ by_title = {}) => r.movie = None
    /\ \A k \in AddedKeys :
          \E i \in 1..Len(Metadata) :
              Metadata[i].ratingKey = k /\ Metadata[i].type = MovieType
    /\ apply_stats # None =>
          /\ apply_stats[1].filtered =
                Cardinality({i \in 1..Len(resolved) :
                                /\ resolved[i].movie # None
                                /\ resolved[i].movie[1].type # MovieType})
          /\ LET unresolved ==
                      Cardinality({i \in 1..Len(resolved) :
                                      resolved[i].movie = None})
             IN  apply_stats[1].failed \in
                     {unresolved, unresolved + Cardinality(ResolvedToMovie)}

\* a record whose key is a show's although a movie has its title was
\* filtered, a record with a stale key was found by its title and added,
\* and only the movie was handed to createCollection
C16_Witness ==
    /\ fpc = "tally" /\ ~dry_run /\ Len(resolved) = 2
    /\ resolved[1].record = RecShow /\ resolved[1].key_hit
    /\ ~resolved[1].title_tried
    /\ resolved[1].movie = Some(Metadata[5])
    /\ resolved[2].record = RecStale /\ ~resolved[2].key_hit
    /\ resolved[2].title_tried
    /\ resolved[2].movie = Some(Metadata[3])
    /\ apply_stats = Some(Stats(1, 0, 1))
    /\ ops = <<Call("createCollection", <<7>>, TRUE)>>

(***************************************************************************)
(* Properties of the suggestion functions.                                 *)
(***************************************************************************)
\* the normalized lines of the answer
NormalizedLines == [i \in 1..Len(raw_lines) |-> normalize_title(raw_lines[i])]

\* the lines that count: normalized length at least 3 and no earlier line
\* with the same normalized text ignoring case
FirstOccurrences ==
    {i \in 1..Len(raw_lines) :
        /\ Len(NormalizedLines[i]) >= 3
        /\ \A j \in 1..(i - 1) :
              Lower(NormalizedLines[j]) # Lower(NormalizedLines[i])}

\* the m-th of them in the order of the answer
NthOccurrence(m) ==
    CHOOSE i \in FirstOccurrences :
        Cardinality({j \in FirstOccurrences : j < i}) = m - 1

\* C17: what either suggestion function returns is the first max_results
\* elements of the normalized lines of length at least 3, each kept at its
\* first occurrence ignoring case, in the order of the answer; so it has at
\* most max_results entries, no two equal ignoring case, none shorter
\* than 3.
C17_SuggestIsStableDedup ==
    suggested # None =>
        LET out == suggested[1]
            count == Cardinality(FirstOccurrences)
        IN  /\ Len(out) = IF count < max_wanted THEN count ELSE max_wanted
            /\ \A m \in 1..Len(out) :
                  out[m] = NormalizedLines[NthOccurrence(m)]
            /\ Len(out) <= max_wanted
            /\ \A m, k \in 1..Len(out) :
                  m # k => Lower(out[m]) # Lower(out[k])
            /\ \A m \in 1..Len(out) : Len(out[m]) >= 3

\* the contrast function, asked for two titles, answered "1. Aki", "In",
\* "aki", "* Zip", ... : "Aki" once, "In" dropped, then "Zip"
C17_Witness ==
    /\ suggested = Some(<<Aki, Zip>>)
    /\ variant = "contrast" /\ max_wanted = 2
    /\ Len(raw_lines) = 3
    /\ raw_lines[1] = <<"1", ".", " ">> \o Aki
    /\ raw_lines[2] = <<"a", "k", "i">>
    /\ raw_lines[3] = <<"*", " ">> \o Zip

(***************************************************************************)
(* Properties of the exit code of main().                                  *)
(***************************************************************************)
BothReturned == \A f \in Flavors : stats[f] # None

\* the run ended by the return at line 281
ReachedReturn == returned # None /\ refresher_result # "not run"

\* the exit code as far as the claim and the code agree: 0 only when both
\* reconcile calls returned, 1 when the run ends before the first reconcile
\* or a reconcile raised, 130 when a KeyboardInterrupt reaches the handler
\* of lines 283-286
ExitCodeRules ==
    /\ [](returned = Some(0) => BothReturned /\ ReachedReturn)
    /\ [](ReachedReturn /\ ~BothReturned => returned = Some(1))
    /\ [][mpc = "start" /\ mpc' = "done" =>
              returned' \in {Some(1), Some(130)}]_vars
    /\ [][(Interrupt \/ InterruptedWrite) => returned' = Some(130)]_vars
    /\ [](returned # None => returned[1] \in {0, 1, 130})

\* C18 as stated: main() returns 0 only when both reconcile calls returned
\* without raising, 1 when the seed title is missing, the configuration
\* does not load or a reconcile raised, and 130 whenever the run is
\* interrupted, the chained refresher included.
C18_ExitCodes ==
    /\ ExitCodeRules
    /\ [](refresher_result = "interrupt" => returned = Some(130))

\* C18, amended: as above, with 130 for an interrupt outside the chained
\* refresher; an interrupt of the chained refresher is caught (lines
\* 260-262) and the code returned is the one the two reconcile calls left.
C18_ExitCodesOutsideRefresher ==
    /\ ExitCodeRules
    /\ [](refresher_result = "interrupt" =>
              returned = Some(exit_code) /\ exit_code \in {0, 1})

\* the related reconcile raised, the contrast one returned, the chained
\* refresher was interrupted: the run ends with 1
C18_Witness ==
    /\ returned = Some(1)
    /\ stats["related"] = None /\ stats["contrast"] # None
    /\ run_refresher /\ refresher_result = "interrupt"

(***************************************************************************)
(* What a reconcile call leaves alone.                                     *)
(***************************************************************************)
\* C19: no step of a reconcile call, of either flavor, changes the
\* membership or order of a library collection or the snapshot file of the
\* other flavor; what it writes is its own snapshot file and the catalog
\* and tags of the Acquisition Requester.
C19_ReconcileKeepsCollections ==
    [][InReconcile =>
          /\ collections' = collections
          /\ \A f \in Flavors :
                f # mpc => files'[JSON_FILE(f)] = files[JSON_FILE(f)]]_vars

\* both reconcile calls are over, over a library whose two collections hold
\* 7 and 3: movies were found, both snapshot files were written, a title
\* was sent to the requester, and the collections are as they were
C19_Witness ==
    /\ mpc = "summary"
    /\ \A f \in Flavors :
          /\ stats[f] # None
          /\ stats[f][1].found_in_plex > 0
          /\ stats[f][1].saved_to_json
          /\ files[JSON_FILE(f)] = WholeFile(lastReturned[f][1])
    /\ stats["related"][1].sent_to_radarr > 0
    /\ \A n \in CollectionNames : collections[n] = Some(<<7, 3>>)
    /\ collections = start_collections

(***************************************************************************)
(* Failures inside one collection of the refresher.                        *)
(***************************************************************************)
\* the sum of one count over the collections that were not skipped
RECURSIVE SumOver(_, _)
SumOver(list, field) ==
    IF list = <<>> THEN 0
    ELSE (IF Head(list).skipped THEN 0 ELSE Head(list).stats[1][field])
         + SumOver(Tail(list), field)

TotalsIncludeAll ==
    /\ total_stats.collections_processed =
          Cardinality({i \in 1..Len(processed) : ~processed[i].skipped})
    /\ total_stats.total_added = SumOver(processed, "added")
    /\ total_stats.total_failed = SumOver(processed, "failed")
    /\ total_stats.total_filtered = SumOver(processed, "filtered")

\* C20: a failure of the remove or add step of one collection does not end
\* the run: from these steps the run goes on to the tally and the next
\* entry of COLLECTIONS (only an interrupt ends it there, with 130), a run
\* that ends with 0 has gone through every entry, exit code 1 arises only
\* before the loop, and the totals are at every moment the sums of the
\* counts returned for the collections handled so far, failed ones included.
C20_FailureStaysInsideCollection ==
    /\ []TotalsIncludeAll
    /\ [](refresher_exit = Some(1) => ci = 0 /\ processed = <<>>)
    /\ [](refresher_exit = Some(0) => Len(processed) = Len(COLLECTIONS))
    /\ [][(fpc \in {"remove", "add"}) =>
              ((fpc' \in {"add", "tally"} /\ ci' = ci)
               \/ (fpc' = "done" /\ refresher_exit' = Some(130)))]_vars
    /\ [][fpc = "tally" /\ fpc' # "done" =>
              (fpc' = "load" /\ ci' = ci + 1
               /\ Len(processed') = Len(processed) + 1
               /\ processed'[Len(processed')].trouble = Trouble)]_vars

\* the add step of the first collection failed after its members were
\* removed, the second collection was refreshed all the same, and the
\* totals at the end count the first one's failure
C20_Witness ==
    /\ fpc = "done" /\ refresher_exit = Some(0)
    /\ Len(processed) = 2
    /\ ~processed[1].skipped /\ processed[1].trouble
    /\ processed[1].stats[1].added = 0
    /\ processed[1].stats[1].failed > 0
    /\ collections[COLLECTIONS[1]] = Some(<<>>)
    /\ ~processed[2].skipped /\ ~processed[2].trouble
    /\ processed[2].stats[1].added > 0
    /\ total_stats.collections_processed = 2
    /\ total_stats.total_failed = processed[1].stats[1].failed

(***************************************************************************)
(* The removal step of the refresher.                                      *)
(***************************************************************************)
\* the removal step of the current collection is over, the add step has
\* not started
RemovalOver == fpc = "add"

BulkRemoveFailed == RemovalOver /\ ops # <<>> /\ ~ops[1].ok

\* after the failed bulk call every existing member was attempted, one by
\* one and in order, whether or not the attempts before it went through
EveryMemberAttempted ==
    /\ Len(ops) = 1 + Len(existing.existing_items)
    /\ \A i \in 1..Len(existing.existing_items) :
          /\ ops[i + 1].call = "removeCollection"
          /\ ops[i + 1].keys = <<existing.existing_items[i]>>

AddStepCalls == SubSeq(ops', Len(ops) + 1, Len(ops'))

\* NOT_FOUND then CREATED_WITH_ITEMS: the only call is a createCollection
CreatedPath(before) ==
    /\ before = None
    /\ Len(ops) = 1 /\ ops[1].call = "createCollection" /\ ops[1].ok

\* FOUND, ITEMS_REMOVED, ITEMS_ADDED: the previous members, if any, were
\* removed by calls that went through, then addItems went through
RefilledPath(before) ==
    /\ before # None
    /\ ops # <<>>
    /\ ops[Len(ops)].call = "addItems" /\ ops[Len(ops)].ok
    /\ \A i \in 1..(Len(ops) - 1) :
          ops[i].call \in {"removeItems", "removeCollection"}
    /\ before[1] # <<>> => Len(ops) > 1 /\ ops[1].call = "removeItems"

\* C22: a refresh that is not a dry run and reaches the add step goes one
\* of two ways: the collection did not exist and is created with the
\* resolved items, or it existed, its previous members are removed and then
\* the resolved items are added; addItems is never called on a collection
\* that still holds previous members and createCollection never for a
\* collection that exists.
C22_TwoPaths ==
    /\ [](fpc = "tally" /\ ~dry_run /\ valid_movies(resolved) # <<>> =>
             \/ CreatedPath(start_collections[CurName])
             \/ RefilledPath(start_collections[CurName]))
    /\ [][(fpc = "add") =>
             \A i \in 1..Len(AddStepCalls) :
                /\ AddStepCalls[i].call = "addItems" =>
                      collections[CurName] = Some(<<>>)
                /\ AddStepCalls[i].call = "createCollection" =>
                      collections[CurName] = None]_vars

(***************************************************************************)
(* Two concurrent runs and the snapshot file.                              *)
(***************************************************************************)
BothFinished == writer # <<>> /\ \A p \in Procs : writer[p].pc = "done"

Wrote(p) == writer[p].saved_to_json

\* C23: once two concurrent reconcile runs of one flavor have finished,
\* the snapshot file holds the complete present list of one of those that
\* wrote it, never an empty, cut or mixed content.
C23_LastWriterWins ==
    BothFinished /\ (\E p \in Procs : Wrote(p)) =>
        \E p \in Procs :
            /\ Wrote(p)
            /\ disk = Dump(writer[p].present)
            /\ files[JSON_FILE(racing)] = WholeFile(writer[p].present)

(***************************************************************************)
(* The counts returned for one collection.                                 *)
(***************************************************************************)
\* apply_collection_to_plex has returned for the current collection
Applied == fpc = "tally" /\ apply_stats # None

\* C24: whenever apply_collection_to_plex returns for a non-empty
\* snapshot, after a dry run, an early return, a successful or a failed
\* remove or add step, added + failed + filtered is the number of records
\* of the snapshot.
C24_CountsAddUp ==
    Applied =>
        LET loaded == load_collection_json(files[json_file(ci)])
        IN  /\ loaded # None /\ loaded[1] # <<>>
            /\ Len(shuffled_movies) = Len(loaded[1])
            /\ apply_stats[1].added + apply_stats[1].failed
                  + apply_stats[1].filtered = Len(loaded[1])

\* a snapshot of a movie and a show, not a dry run: the show was filtered
\* out, the add of the movie failed, and the counts are 0, 1 and 1
C24_Witness ==
    /\ Applied /\ ~dry_run
    /\ Len(shuffled_movies) = 2
    /\ apply_stats = Some(Stats(0, 1, 1))
    /\ ops # <<>> /\ ~ops[Len(ops)].ok

(***************************************************************************)
(* Present and missing against the candidates.                             *)
(***************************************************************************)
\* no two entries of a list of titles are equal ignoring case
NoRepeats(titles) ==
    \A i, j \in 1..Len(titles) :
        i # j => Lower(titles[i]) # Lower(titles[j])

PresentTitles == [i \in 1..Len(collection_movies) |-> collection_movies[i].title]

\* C25: when a reconcile run returns, found_in_plex + missing_in_plex is
\* the number of candidates the Suggestion Source returned, no title is
\* (ignoring case) both in present and in missing, and none is twice in
\* present or twice in missing.
C25_FoundPlusMissing ==
    (InReconcile /\ rpc = "return") =>
        /\ ReturnedStats.found_in_plex + ReturnedStats.missing_in_plex =
              Len(recommendations)
        /\ NoRepeats(PresentTitles \o missing_in_plex)

\* two candidates, "Pap" found in the library under another spelling of
\* its case and "Zip" missing, and the run returns 1 and 1
C25_Witness ==
    /\ InReconcile /\ rpc = "return"
    /\ Len(recommendations) = 2
    /\ Len(collection_movies) = 1 /\ missing_in_plex = <<Zip>>
    /\ collection_movies[1].title # recommendations[1]
    /\ Lower(collection_movies[1].title) = Lower(recommendations[1])

(***************************************************************************)
(* The acquisition count.                                                  *)
(***************************************************************************)
\* radarr_process_missing_titles was called and returned
AcquireReturned ==
    /\ missing_in_plex # <<>>
    /\ attempted = missing_in_plex
    /\ last_req # None /\ ~last_req[1].propagated

\* C26: the sent_to_radarr a reconcile run returns is 0 or the number of
\* missing titles; it is that number whenever radarr_process_missing_titles
\* returned, also when the requests for the titles failed and were
\* swallowed, and 0 when nothing is missing or the call raised.
C26_SentIsAllOrNothing ==
    (InReconcile /\ rpc = "return") =>
        /\ ReturnedStats.sent_to_radarr \in {0, ReturnedStats.missing_in_plex}
        /\ AcquireReturned =>
              ReturnedStats.sent_to_radarr = Len(missing_in_plex)
        /\ ~AcquireReturned => ReturnedStats.sent_to_radarr = 0

\* one title is missing, its request failed and was swallowed, and the
\* run returns sent_to_radarr 1
C26_Witness ==
    /\ InReconcile /\ rpc = "return"
    /\ Len(missing_in_plex) = 1
    /\ AcquireReturned
    /\ last_req[1].caught
    /\ last_req[1].path = "add"
    /\ sent_to_radarr = 1

(***************************************************************************)
(* A snapshot with nothing to add.                                         *)
(***************************************************************************)
\* the snapshot of the current collection loads as the empty list
EmptySnapshot ==
    /\ fpc = "load" /\ ci <= Len(COLLECTIONS)
    /\ load_collection_json(files[json_file(ci)]) = Some(<<>>)

\* the records of the current collection were looked up and none is a
\* movie item
NothingResolved ==
    /\ fpc \in {"remove", "add", "tally"}
    /\ valid_movies(resolved) = <<>>

\* C27: a refresh that is not a dry run makes no call that changes the
\* collection, and leaves it as it was (absent when it was absent, with
\* its members when it had some), when the snapshot is empty or none of
\* its records resolves to a movie item.
C27_NothingToAddNoMutation ==
    /\ [](~dry_run /\ NothingResolved =>
             /\ fpc = "tally" /\ ops = <<>>
             /\ collections[CurName] = start_collections[CurName])
    /\ [][(~dry_run /\ EmptySnapshot) =>
             /\ collections' = collections /\ ops' = <<>>
             /\ fpc' \in {"load", "done"}]_vars
    /\ [](\A i \in 1..Len(processed) :
             (~dry_run /\ processed[i].skipped) =>
                 collections[COLLECTIONS[i]] =
                     start_collections[COLLECTIONS[i]])

\* the collection holds 3 and 12, the snapshot's records are a show and a
\* title the library does not know: nothing was called, 3 and 12 are still
\* there, and the counts are 0 added, 1 failed, 1 filtered
C27_Witness ==
    /\ ~dry_run /\ NothingResolved
    /\ Len(resolved) = 2
    /\ \A i \in 1..2 : ~resolved[i].error
    /\ apply_stats = Some(Stats(0, 1, 1))
    /\ collections[CurName] = Some(<<3, 12>>)

(***************************************************************************)
(* The chained refresher in main().                                        *)
(***************************************************************************)
RefresherRan == refresher_result \notin {"not run", "skipped"}

\* the call of the reconcile function main() is in has just ended
CallEnded == InReconcile /\ rpc \in {"return", "raised"}

\* C28: in main() the chained refresher runs exactly when the flag
\* run_collection_refresher is true; it starts only when the reconcile
\* calls of both flavors are over, returned or raised; and however it
\* ends - exit code 0 or not, exception, interrupt - main() returns the
\* exit code the two reconcile calls left: 0 when both returned, else 1.
C28_ChainedRefresher ==
    /\ [](ReachedReturn => (RefresherRan <=> run_refresher))
    /\ [](RefresherRan => ReachedReturn)
    /\ [][refresher_result' # refresher_result =>
             /\ mpc = "summary"
             /\ \A f \in Flavors : stats[f] # None \/ exit_code = 1
             /\ exit_code' = exit_code
             /\ returned' = Some(IF BothReturned THEN 0 ELSE 1)]_vars
    /\ [][(mpc' = "summary" /\ mpc # "summary") =>
             mpc = "contrast" /\ CallEnded]_vars
    /\ [][(mpc' = "contrast" /\ mpc # "contrast") =>
             mpc = "related" /\ CallEnded]_vars

\* both reconcile calls returned, the flag was set, the refresher ended
\* with exit code 1, and main() returned 0
C28_Witness ==
    /\ returned = Some(0)
    /\ BothReturned
    /\ run_refresher /\ refresher_result = "exit 1"

====
